---- MODULE Spec2Model ----
(***************************************************************************)
(* Layer resolution engine of logr: the override registry, the layer       *)
(* cache, the lock registryMu that guards both, and the goroutines that    *)
(* call resolveLayer, SetLayerForPackage and SetDepth.                     *)
(*                                                                         *)
(* Strings are sequences of one-character strings, so that strings.Split,  *)
(* strings.Join, strings.LastIndex and strings.ToUpper are computed.       *)
(* A Go pointer that may be nil (to a string or an int) is a sequence of   *)
(* length at most one: <<>> is nil, <<v>> points to v. A Go map is a       *)
(* function whose DOMAIN is the set of keys present.                       *)
(***************************************************************************)
EXTENDS Integers, Sequences, FiniteSets, TLC

\* ------------------------------------------------------------------ bounds
\* the number of calls the goroutines make in all
MaxCalls == 3

\* the goroutines that use the logger
Threads == {1, 2}

\* ------------------------------------------------------- string constants
P_ab == <<"a", "/", "b">>
P_abc == <<"a", "/", "b", "/", "c">>
P_abcd == <<"a", "/", "b", "/", "c", "/", "d">>

\* the package paths getCurrentPackage reports for the callers
Paths == {P_ab, P_abc, P_abcd}

\* the layer names callers pass to SetLayerForPackage
LayerNames == {<<"X">>, <<"D", "b">>}

\* the depths callers pass to SetDepth
DepthArgs == {-1, 1}

UNKNOWN == <<"U", "N", "K", "N", "O", "W", "N">>

Nil == <<>>

OK == <<"ok">>
PANIC == <<"panic">>

\* ------------------------------------------------------------------ levels
LevelDebug == 0
LevelInfo == 1
LevelWarn == 2
LevelError == 3
LevelTest == 4

Levels == {LevelDebug, LevelInfo, LevelWarn, LevelError, LevelTest}

\* ------------------------------------------------------------------ config
defaultDepth == 2

DefaultConfig ==
    [DefaultDepth |-> defaultDepth,
     SkipSegments |-> << <<"i","n","t","e","r","n","a","l">>,
                         <<"p","k","g">>,
                         <<"c","m","d">>,
                         <<"a","d","a","p","t","e","r","s">>,
                         <<"p","r","i","m","a","r","y">>,
                         <<"s","e","c","o","n","d","a","r","y">> >>,
     StrictMode |-> FALSE,
     AllowedLayers |-> <<>>]

\* mutant: strict mode without allowed layers is accepted
Validate_DepthOnly(c) ==
    IF c.DefaultDepth < 0
    THEN FALSE
    ELSE TRUE

\* Config.Validate: TRUE stands for the nil error
Validate(c) ==
    IF c.DefaultDepth < 0
    THEN FALSE
    ELSE IF c.StrictMode /\ Len(c.AllowedLayers) = 0
         THEN FALSE
         ELSE TRUE

\* the configurations Init and InitWithConfig accept
Configs == {c \in {DefaultConfig} : Validate(c)}

\* --------------------------------------------------------- string library
\* strings.LastIndex(path, "/"): 0-based index of the last "/", -1 if none
RECURSIVE LastIndexFrom(_, _)
LastIndexFrom(s, i) ==
    IF i = 0 THEN -1
    ELSE IF s[i] = "/" THEN i - 1
    ELSE LastIndexFrom(s, i - 1)

LastIndex(s) == LastIndexFrom(s, Len(s))

\* strings.Split(s, "/"): always at least one segment
RECURSIVE SplitFrom(_, _, _)
SplitFrom(s, i, cur) ==
    IF i > Len(s) THEN <<cur>>
    ELSE IF s[i] = "/" THEN <<cur>> \o SplitFrom(s, i + 1, <<>>)
    ELSE SplitFrom(s, i + 1, Append(cur, s[i]))

Split(s) == SplitFrom(s, 1, <<>>)

\* strings.Join(segs, "/")
RECURSIVE Join(_)
Join(segs) ==
    IF Len(segs) = 0 THEN <<>>
    ELSE IF Len(segs) = 1 THEN segs[1]
    ELSE segs[1] \o <<"/">> \o Join(Tail(segs))

UpperChar(c) ==
    CASE c = "a" -> "A" [] c = "b" -> "B" [] c = "c" -> "C" [] c = "d" -> "D"
      [] c = "e" -> "E" [] c = "f" -> "F" [] c = "g" -> "G" [] c = "h" -> "H"
      [] c = "i" -> "I" [] c = "j" -> "J" [] c = "k" -> "K" [] c = "l" -> "L"
      [] c = "m" -> "M" [] c = "n" -> "N" [] c = "o" -> "O" [] c = "p" -> "P"
      [] c = "q" -> "Q" [] c = "r" -> "R" [] c = "s" -> "S" [] c = "t" -> "T"
      [] c = "u" -> "U" [] c = "v" -> "V" [] c = "w" -> "W" [] c = "x" -> "X"
      [] c = "y" -> "Y" [] c = "z" -> "Z"
      [] OTHER -> c

\* strings.ToUpper
ToUpper(s) == [i \in 1..Len(s) |-> UpperChar(s[i])]

\* slices.Contains
Contains(list, x) == \E i \in 1..Len(list) : list[i] = x

\* ------------------------------------------------------ the path extractor
\* s[i:] is defined for 0 <= i <= len(s); outside, the runtime panics
SliceInRange(s, i) == 0 <= i /\ i <= Len(s)

\* mutant: the first depth segments are taken instead of the last
extractFromDepth_FirstSegments(packagePath, depth, skipSegments) ==
    LET segments == Split(packagePath)
        d0 == IF depth < 0 THEN 0 ELSE depth
        d1 == IF d0 > Len(segments) THEN Len(segments) ELSE d0
        relevant == SubSeq(segments, 1, d1)
        filtered == SelectSeq(relevant, LAMBDA seg : ~Contains(skipSegments, seg))
    IN IF Len(filtered) = 0
       THEN UNKNOWN
       ELSE ToUpper(Join(filtered))

\* mutant: a negative depth is not raised to 0
extractFromDepth_NoFloor(packagePath, depth, skipSegments) ==
    LET segments == Split(packagePath)
        d1 == IF depth > Len(segments) THEN Len(segments) ELSE depth
        s0 == Len(segments) - d1
        startIndex == IF s0 < 0 THEN 0 ELSE s0
        relevant == SubSeq(segments, startIndex + 1, Len(segments))
        filtered == SelectSeq(relevant, LAMBDA seg : ~Contains(skipSegments, seg))
    IN IF ~SliceInRange(segments, startIndex)
       THEN PANIC
       ELSE IF Len(filtered) = 0
            THEN UNKNOWN
            ELSE ToUpper(Join(filtered))

\* mutant: the joined segments are returned as they are
extractFromDepth_NoUpper(packagePath, depth, skipSegments) ==
    LET segments == Split(packagePath)
        d0 == IF depth < 0 THEN 0 ELSE depth
        d1 == IF d0 > Len(segments) THEN Len(segments) ELSE d0
        s0 == Len(segments) - d1
        startIndex == IF s0 < 0 THEN 0 ELSE s0
        relevant == SubSeq(segments, startIndex + 1, Len(segments))
        filtered == SelectSeq(relevant, LAMBDA seg : ~Contains(skipSegments, seg))
    IN IF ~SliceInRange(segments, startIndex)
       THEN PANIC
       ELSE IF Len(filtered) = 0
            THEN UNKNOWN
            ELSE Join(filtered)

\* mutant: depth is the index of the first segment taken
extractFromDepth_StartIndex(packagePath, depth, skipSegments) ==
    LET segments == Split(packagePath)
        d0 == IF depth < 0 THEN 0 ELSE depth
        startIndex == IF d0 > Len(segments) THEN Len(segments) ELSE d0
        relevant == SubSeq(segments, startIndex + 1, Len(segments))
        filtered == SelectSeq(relevant, LAMBDA seg : ~Contains(skipSegments, seg))
    IN IF ~SliceInRange(segments, startIndex)
       THEN PANIC
       ELSE IF Len(filtered) = 0
            THEN UNKNOWN
            ELSE ToUpper(Join(filtered))

\* mutant: the skipped segments are removed before the last depth segments
\* are taken
extractFromDepth_SkipFirst(packagePath, depth, skipSegments) ==
    LET segments == SelectSeq(Split(packagePath),
                              LAMBDA seg : ~Contains(skipSegments, seg))
        d0 == IF depth < 0 THEN 0 ELSE depth
        d1 == IF d0 > Len(segments) THEN Len(segments) ELSE d0
        s0 == Len(segments) - d1
        startIndex == IF s0 < 0 THEN 0 ELSE s0
        filtered == SubSeq(segments, startIndex + 1, Len(segments))
    IN IF ~SliceInRange(segments, startIndex)
       THEN PANIC
       ELSE IF Len(filtered) = 0
            THEN UNKNOWN
            ELSE ToUpper(Join(filtered))

extractFromDepth(packagePath, depth, skipSegments) ==
    LET segments == Split(packagePath)
        d0 == IF depth < 0 THEN 0 ELSE depth
        d1 == IF d0 > Len(segments) THEN Len(segments) ELSE d0
        s0 == Len(segments) - d1
        startIndex == IF s0 < 0 THEN 0 ELSE s0
        relevant == SubSeq(segments, startIndex + 1, Len(segments))
        filtered == SelectSeq(relevant, LAMBDA seg : ~Contains(skipSegments, seg))
    IN IF ~SliceInRange(segments, startIndex)
       THEN PANIC
       ELSE IF Len(filtered) = 0
            THEN UNKNOWN
            ELSE ToUpper(Join(filtered))

\* strings.Index(path, "/"): 0-based index of the first "/", -1 if none
RECURSIVE IndexFrom(_, _)
IndexFrom(s, i) ==
    IF i > Len(s) THEN -1
    ELSE IF s[i] = "/" THEN i - 1
    ELSE IndexFrom(s, i + 1)

\* mutant: the path is cut at its first "/"
parentPath_FirstSlash(path) ==
    LET firstIndex == IndexFrom(path, 1)
    IN IF firstIndex = -1 THEN <<>> ELSE SubSeq(path, 1, firstIndex)

parentPath(path) ==
    LET lastIndex == LastIndex(path)
    IN IF lastIndex = -1 THEN <<>> ELSE SubSeq(path, 1, lastIndex)

\* mutant: the exact path only, no walk to the parents
findInheritedLayer_ExactOnly(reg, current) ==
    IF current # <<>> /\ current \in DOMAIN reg
    THEN reg[current].explicitLayer
    ELSE Nil

\* mutant: the walk stops at the first registered package, layered or not
RECURSIVE findInheritedLayer_FirstEntry(_, _)
findInheritedLayer_FirstEntry(reg, current) ==
    IF current = <<>> THEN Nil
    ELSE IF current \in DOMAIN reg
         THEN reg[current].explicitLayer
         ELSE findInheritedLayer_FirstEntry(reg, parentPath(current))

\* the loop of findInheritedLayer over a registry value
RECURSIVE findInheritedLayer(_, _)
findInheritedLayer(reg, current) ==
    IF current = <<>> THEN Nil
    ELSE IF current \in DOMAIN reg /\ reg[current].explicitLayer # Nil
         THEN reg[current].explicitLayer
         ELSE findInheritedLayer(reg, parentPath(current))

\* mutant: the explicit depth of the nearest ancestor is used as well
RECURSIVE depthValueOf_Inherited(_, _, _)
depthValueOf_Inherited(reg, cfg, packagePath) ==
    IF packagePath = <<>> THEN cfg.DefaultDepth
    ELSE IF packagePath \in DOMAIN reg /\ reg[packagePath].explicitDepth # Nil
         THEN reg[packagePath].explicitDepth[1]
         ELSE depthValueOf_Inherited(reg, cfg, parentPath(packagePath))

\* the depth lookup of resolveLayer (lines 567-571)
depthValueOf(reg, cfg, packagePath) ==
    IF packagePath \in DOMAIN reg /\ reg[packagePath].explicitDepth # Nil
    THEN reg[packagePath].explicitDepth[1]
    ELSE cfg.DefaultDepth

\* ------------------------------------------------------------------- state
VARIABLES
    config,      \* Logger.config, fixed by Init / InitWithConfig
    registry,    \* Logger.registry: package path -> packageConfig
    layerCache,  \* Logger.layerCache: package path -> layer
    writer,      \* registryMu: the goroutine holding it exclusively, 0 if none
    readers,     \* registryMu: the goroutines holding it shared
    pc,          \* per goroutine: where it stands in its current call
    op,          \* per goroutine: the call it runs or ran last
    path,        \* per goroutine: packagePath of that call
    arg,         \* per goroutine: the arguments of that call, by parameter name
    val,         \* per goroutine: *inheritadLayer or result, to be cached
    depthValue,  \* per goroutine: local depthValue of resolveLayer
    ret,         \* per goroutine: what the last call returned
    via,         \* per goroutine: the return statement resolveLayer took
    calls,       \* number of calls made so far
    \* history variables, read by the properties only
    undisturbed, \* per goroutine: no registry write since its call started
    marked,      \* per goroutine: its resolve is the first on its path after a write
                 \* to it, and the registry has not been written since
    quiet,       \* per goroutine: nothing touched its path since its resolve returned
    lastWrite,   \* <<p>>: p was written and not resolved since
    raced,       \* paths a resolve of which overlapped a registry write
    \* the pure functions, applied on their own
    input,       \* the arguments drawn for the functions
    output,      \* function name -> the value it returned for input
    \* the singleton and the logging front end
    once,          \* sync.Once: its function has run
    defaultLogger, \* 0 for nil, else the number of the Logger allocated for it
    formatter,     \* Logger.formatter
    level,         \* Logger.level
    allowedLayers, \* Logger.allowedLayers: layer -> int
    defaultLayer,  \* Logger.defaultLayer
    stdout,        \* the lines printed, each the entry given to the formatter
    caller,        \* the goroutine that made the latest call, 0 if none
    mu             \* Logger.mu: the goroutine holding it, 0 if none

core == <<config, registry, layerCache, writer, readers, pc, op, path, arg,
          val, depthValue, ret, via, calls,
          undisturbed, marked, quiet, lastWrite, raced>>

\* what the operations on the logger leave alone
front == <<once, defaultLogger, formatter, level, allowedLayers, defaultLayer,
           stdout, caller, mu>>

aux == <<input, output, front>>

vars == <<core, aux>>

hist == <<undisturbed, marked, quiet, lastWrite, raced>>

\* Init(&PlainTextFormatter{}, LevelInfo, nil) has run: empty registry and
\* cache, a validated config, no goroutine inside a call
Fresh ==
    /\ once = TRUE
    /\ defaultLogger = 1
    /\ formatter = "PlainText"
    /\ level = LevelInfo
    /\ allowedLayers = <<>>
    /\ defaultLayer = <<>>
    /\ stdout = <<>>
    /\ caller = 0
    /\ mu = 0
    /\ config \in Configs
    /\ registry = <<>>
    /\ layerCache = <<>>
    /\ writer = 0
    /\ readers = {}
    /\ pc = [t \in Threads |-> "idle"]
    /\ op = [t \in Threads |-> "none"]
    /\ path = [t \in Threads |-> Nil]
    /\ arg = [t \in Threads |-> Nil]
    /\ val = [t \in Threads |-> Nil]
    /\ depthValue = [t \in Threads |-> Nil]
    /\ ret = [t \in Threads |-> Nil]
    /\ via = [t \in Threads |-> "none"]
    /\ calls = 0
    /\ undisturbed = [t \in Threads |-> FALSE]
    /\ marked = [t \in Threads |-> FALSE]
    /\ quiet = [t \in Threads |-> FALSE]
    /\ lastWrite = Nil
    /\ raced = {}

Init ==
    /\ Fresh
    /\ input = Nil
    /\ output = <<>>

\* map helpers: m[k] = v and delete(m, k)
MapSet(m, k, v) == [x \in DOMAIN m \cup {k} |-> IF x = k THEN v ELSE m[x]]
MapDelete(m, k) == [x \in DOMAIN m \ {k} |-> m[x]]

CanCall(t) == pc[t] \in {"idle", "done"} /\ calls < MaxCalls

InResolve(t) == op[t] = "resolve" /\ pc[t] \notin {"idle", "done"}

\* ------------------------------------------------------------ resolveLayer
\* getOrResolveLayer: the caller's package is packagePath
CallResolve(t, packagePath) ==
    /\ CanCall(t)
    /\ calls' = calls + 1
    /\ pc' = [pc EXCEPT ![t] = "getCached"]
    /\ op' = [op EXCEPT ![t] = "resolve"]
    /\ path' = [path EXCEPT ![t] = packagePath]
    /\ arg' = [arg EXCEPT ![t] = Nil]
    /\ via' = [via EXCEPT ![t] = "none"]
    /\ quiet' = [quiet EXCEPT ![t] = quiet[t] /\ op[t] = "resolve" /\ path[t] = packagePath]
    /\ ret' = [ret EXCEPT ![t] = IF quiet'[t] THEN ret[t] ELSE Nil]
    /\ undisturbed' = [undisturbed EXCEPT ![t] = TRUE]
    /\ marked' = [marked EXCEPT ![t] = (lastWrite = <<packagePath>>)]
    /\ lastWrite' = IF lastWrite = <<packagePath>> THEN Nil ELSE lastWrite
    /\ UNCHANGED <<aux, config, registry, layerCache, writer, readers, val, depthValue, raced>>

\* registryMu.Lock()
Lock(t) ==
    /\ pc[t] \in {"getCached", "setCached", "setLayer", "setDepth"}
    /\ writer = 0
    /\ readers = {}
    /\ writer' = t
    /\ pc' = [pc EXCEPT ![t] = CASE pc[t] = "getCached" -> "getCachedCS"
                                 [] pc[t] = "setCached" -> "setCachedCS"
                                 [] pc[t] = "setLayer" -> "setLayerCS"
                                 [] pc[t] = "setDepth" -> "setDepthCS"]
    /\ UNCHANGED <<aux, config, registry, layerCache, readers, op, path, arg, val,
                   depthValue, ret, via, calls, hist>>

\* mutant: a reader enters although a writer is inside
RLock_IgnoresWriter(t) ==
    /\ pc[t] \in {"findInherited", "readDepth"}
    /\ readers' = readers \cup {t}
    /\ pc' = [pc EXCEPT ![t] = CASE pc[t] = "findInherited" -> "findInheritedCS"
                                 [] pc[t] = "readDepth" -> "readDepthCS"]
    /\ UNCHANGED <<aux, config, registry, layerCache, writer, op, path, arg, val,
                   depthValue, ret, via, calls, hist>>

\* registryMu.RLock()
RLock(t) ==
    /\ pc[t] \in {"findInherited", "readDepth"}
    /\ writer = 0
    /\ readers' = readers \cup {t}
    /\ pc' = [pc EXCEPT ![t] = CASE pc[t] = "findInherited" -> "findInheritedCS"
                                 [] pc[t] = "readDepth" -> "readDepthCS"]
    /\ UNCHANGED <<aux, config, registry, layerCache, writer, op, path, arg, val,
                   depthValue, ret, via, calls, hist>>

\* mutant: the lookup never reports a hit
getCachedLayer_AlwaysMiss(t) ==
    /\ pc[t] = "getCachedCS"
    /\ writer = t
    /\ writer' = 0
    /\ pc' = [pc EXCEPT ![t] = "findInherited"]
    /\ quiet' = [quiet EXCEPT ![t] = FALSE]
    /\ UNCHANGED <<aux, config, registry, layerCache, readers, op, path, arg, val,
                   depthValue, ret, via, calls, undisturbed, marked, lastWrite, raced>>

\* getCachedLayer under the lock, and the test of ok in resolveLayer
getCachedLayer(t) ==
    /\ pc[t] = "getCachedCS"
    /\ writer = t
    /\ writer' = 0
    /\ IF path[t] \in DOMAIN layerCache
       THEN /\ pc' = [pc EXCEPT ![t] = "done"]
            /\ ret' = [ret EXCEPT ![t] = layerCache[path[t]]]
            /\ via' = [via EXCEPT ![t] = "cache"]
            /\ quiet' = [quiet EXCEPT ![t] = TRUE]
       ELSE /\ pc' = [pc EXCEPT ![t] = "findInherited"]
            /\ quiet' = [quiet EXCEPT ![t] = FALSE]
            /\ UNCHANGED <<ret, via>>
    /\ UNCHANGED <<aux, config, registry, layerCache, readers, op, path, arg, val,
                   depthValue, calls, undisturbed, marked, lastWrite, raced>>

\* mutant: a package with an explicit depth goes to the extractor even when
\* a layer is inherited
FindInherited_DepthFirst(t) ==
    /\ pc[t] = "findInheritedCS"
    /\ t \in readers
    /\ readers' = readers \ {t}
    /\ LET inheritadLayer == findInheritedLayer(registry, path[t])
       IN IF inheritadLayer # Nil
             /\ ~(path[t] \in DOMAIN registry /\ registry[path[t]].explicitDepth # Nil)
          THEN /\ val' = [val EXCEPT ![t] = inheritadLayer[1]]
               /\ via' = [via EXCEPT ![t] = "inherited"]
               /\ pc' = [pc EXCEPT ![t] = "setCached"]
          ELSE /\ pc' = [pc EXCEPT ![t] = "readDepth"]
               /\ UNCHANGED <<val, via>>
    /\ UNCHANGED <<aux, config, registry, layerCache, writer, op, path, arg,
                   depthValue, ret, calls, hist>>

\* mutant: the inherited layer is upper-cased like an extracted one
FindInherited_UpperCased(t) ==
    /\ pc[t] = "findInheritedCS"
    /\ t \in readers
    /\ readers' = readers \ {t}
    /\ LET inheritadLayer == findInheritedLayer(registry, path[t])
       IN IF inheritadLayer # Nil
          THEN /\ val' = [val EXCEPT ![t] = ToUpper(inheritadLayer[1])]
               /\ via' = [via EXCEPT ![t] = "inherited"]
               /\ pc' = [pc EXCEPT ![t] = "setCached"]
          ELSE /\ pc' = [pc EXCEPT ![t] = "readDepth"]
               /\ UNCHANGED <<val, via>>
    /\ UNCHANGED <<aux, config, registry, layerCache, writer, op, path, arg,
                   depthValue, ret, calls, hist>>

\* findInheritedLayer under the read lock, and the test of nil in resolveLayer
FindInherited(t) ==
    /\ pc[t] = "findInheritedCS"
    /\ t \in readers
    /\ readers' = readers \ {t}
    /\ LET inheritadLayer == findInheritedLayer(registry, path[t])
       IN IF inheritadLayer # Nil
          THEN /\ val' = [val EXCEPT ![t] = inheritadLayer[1]]
               /\ via' = [via EXCEPT ![t] = "inherited"]
               /\ pc' = [pc EXCEPT ![t] = "setCached"]
          ELSE /\ pc' = [pc EXCEPT ![t] = "readDepth"]
               /\ UNCHANGED <<val, via>>
    /\ UNCHANGED <<aux, config, registry, layerCache, writer, op, path, arg,
                   depthValue, ret, calls, hist>>

\* resolveLayer lines 566-573: the depth lookup under the read lock
ReadDepth(t) ==
    /\ pc[t] = "readDepthCS"
    /\ t \in readers
    /\ readers' = readers \ {t}
    /\ depthValue' = [depthValue EXCEPT ![t] = <<depthValueOf(registry, config, path[t])>>]
    /\ pc' = [pc EXCEPT ![t] = "extract"]
    /\ UNCHANGED <<aux, config, registry, layerCache, writer, op, path, arg, val,
                   ret, via, calls, hist>>

\* resolveLayer line 575: extractFromDepth, no lock held
Extract(t) ==
    /\ pc[t] = "extract"
    /\ val' = [val EXCEPT ![t] = extractFromDepth(path[t], depthValue[t][1], config.SkipSegments)]
    /\ depthValue' = [depthValue EXCEPT ![t] = Nil]
    /\ via' = [via EXCEPT ![t] = "extracted"]
    /\ pc' = [pc EXCEPT ![t] = "setCached"]
    /\ UNCHANGED <<aux, config, registry, layerCache, writer, readers, op, path, arg,
                   ret, calls, hist>>

\* mutant: the label is returned but not stored
setCachedLayer_NoStore(t) ==
    /\ pc[t] = "setCachedCS"
    /\ writer = t
    /\ writer' = 0
    /\ ret' = [ret EXCEPT ![t] = val[t]]
    /\ val' = [val EXCEPT ![t] = Nil]
    /\ pc' = [pc EXCEPT ![t] = "done"]
    /\ quiet' = [u \in Threads |-> IF u = t THEN TRUE
                                   ELSE IF path[u] = path[t] THEN FALSE
                                   ELSE quiet[u]]
    /\ UNCHANGED <<aux, config, registry, layerCache, readers, op, path, arg, depthValue,
                   via, calls, undisturbed, marked, lastWrite, raced>>

\* setCachedLayer under the lock, and the return of resolveLayer
setCachedLayer(t) ==
    /\ pc[t] = "setCachedCS"
    /\ writer = t
    /\ writer' = 0
    /\ layerCache' = MapSet(layerCache, path[t], val[t])
    /\ ret' = [ret EXCEPT ![t] = val[t]]
    /\ val' = [val EXCEPT ![t] = Nil]
    /\ pc' = [pc EXCEPT ![t] = "done"]
    /\ quiet' = [u \in Threads |-> IF u = t THEN TRUE
                                   ELSE IF path[u] = path[t] THEN FALSE
                                   ELSE quiet[u]]
    /\ UNCHANGED <<aux, config, registry, readers, op, path, arg, depthValue, via,
                   calls, undisturbed, marked, lastWrite, raced>>

\* ------------------------------------------------------ SetLayerForPackage
CallSetLayerForPackage(t, packagePath, layer) ==
    /\ CanCall(t)
    /\ calls' = calls + 1
    /\ pc' = [pc EXCEPT ![t] = "setLayer"]
    /\ op' = [op EXCEPT ![t] = "SetLayerForPackage"]
    /\ path' = [path EXCEPT ![t] = packagePath]
    /\ arg' = [arg EXCEPT ![t] = [layer |-> layer]]
    /\ ret' = [ret EXCEPT ![t] = Nil]
    /\ via' = [via EXCEPT ![t] = "none"]
    /\ undisturbed' = [undisturbed EXCEPT ![t] = FALSE]
    /\ marked' = [marked EXCEPT ![t] = FALSE]
    /\ quiet' = [quiet EXCEPT ![t] = FALSE]
    /\ UNCHANGED <<aux, config, registry, layerCache, writer, readers, val, depthValue,
                   lastWrite, raced>>

\* what a registry write does to the history variables
RegistryWritten(t) ==
    /\ undisturbed' = [u \in Threads |-> FALSE]
    /\ quiet' = [u \in Threads |-> FALSE]
    /\ marked' = [u \in Threads |-> FALSE]
    /\ lastWrite' = <<path[t]>>
    /\ raced' = raced \cup {path[u] : u \in {x \in Threads : InResolve(x)}}

\* the registry entry of packagePath, created empty when missing
EntryOf(reg, packagePath) ==
    IF packagePath \in DOMAIN reg
    THEN reg[packagePath]
    ELSE [explicitLayer |-> Nil, explicitDepth |-> Nil]

\* mutant: the whole cache is dropped instead of the one entry
SetLayerForPackage_ClearAll(t) ==
    /\ pc[t] = "setLayerCS"
    /\ writer = t
    /\ writer' = 0
    /\ registry' = MapSet(registry, path[t],
                          [EntryOf(registry, path[t]) EXCEPT !.explicitLayer = <<arg[t].layer>>])
    /\ layerCache' = <<>>
    /\ ret' = [ret EXCEPT ![t] = OK]
    /\ pc' = [pc EXCEPT ![t] = "done"]
    /\ RegistryWritten(t)
    /\ UNCHANGED <<aux, config, readers, op, path, arg, val, depthValue, via, calls>>

\* SetLayerForPackage lines 148-160, under the lock
SetLayerForPackage(t) ==
    /\ pc[t] = "setLayerCS"
    /\ writer = t
    /\ writer' = 0
    /\ registry' = MapSet(registry, path[t],
                          [EntryOf(registry, path[t]) EXCEPT !.explicitLayer = <<arg[t].layer>>])
    /\ layerCache' = MapDelete(layerCache, path[t])
    /\ ret' = [ret EXCEPT ![t] = OK]
    /\ pc' = [pc EXCEPT ![t] = "done"]
    /\ RegistryWritten(t)
    /\ UNCHANGED <<aux, config, readers, op, path, arg, val, depthValue, via, calls>>

\* ---------------------------------------------------------------- SetDepth
\* mutant: the depth is not validated
CallSetDepth_NoValidation(t, packagePath, depth) ==
    /\ CanCall(t)
    /\ calls' = calls + 1
    /\ op' = [op EXCEPT ![t] = "SetDepth"]
    /\ arg' = [arg EXCEPT ![t] = [depth |-> depth]]
    /\ via' = [via EXCEPT ![t] = "none"]
    /\ pc' = [pc EXCEPT ![t] = "setDepth"]
    /\ ret' = [ret EXCEPT ![t] = Nil]
    /\ path' = [path EXCEPT ![t] = packagePath]
    /\ undisturbed' = [undisturbed EXCEPT ![t] = FALSE]
    /\ marked' = [marked EXCEPT ![t] = FALSE]
    /\ quiet' = [quiet EXCEPT ![t] = FALSE]
    /\ UNCHANGED <<aux, config, registry, layerCache, writer, readers, val, depthValue,
                   lastWrite, raced>>

\* SetDepth lines 165-172: the validation, then the caller's package
CallSetDepth(t, packagePath, depth) ==
    /\ CanCall(t)
    /\ calls' = calls + 1
    /\ op' = [op EXCEPT ![t] = "SetDepth"]
    /\ arg' = [arg EXCEPT ![t] = [depth |-> depth]]
    /\ via' = [via EXCEPT ![t] = "none"]
    /\ IF depth < 0
       THEN /\ pc' = [pc EXCEPT ![t] = "done"]
            /\ ret' = [ret EXCEPT ![t] = PANIC]
            /\ path' = [path EXCEPT ![t] = Nil]
       ELSE /\ pc' = [pc EXCEPT ![t] = "setDepth"]
            /\ ret' = [ret EXCEPT ![t] = Nil]
            /\ path' = [path EXCEPT ![t] = packagePath]
    /\ undisturbed' = [undisturbed EXCEPT ![t] = FALSE]
    /\ marked' = [marked EXCEPT ![t] = FALSE]
    /\ quiet' = [quiet EXCEPT ![t] = FALSE]
    /\ UNCHANGED <<aux, config, registry, layerCache, writer, readers, val, depthValue,
                   lastWrite, raced>>

\* mutant: the entry is created but the depth is not stored
SetDepth_CreateOnly(t) ==
    /\ pc[t] = "setDepthCS"
    /\ writer = t
    /\ writer' = 0
    /\ registry' = MapSet(registry, path[t],
                          EntryOf(registry, path[t]))
    /\ layerCache' = MapDelete(layerCache, path[t])
    /\ ret' = [ret EXCEPT ![t] = OK]
    /\ pc' = [pc EXCEPT ![t] = "done"]
    /\ RegistryWritten(t)
    /\ UNCHANGED <<aux, config, readers, op, path, arg, val, depthValue, via, calls>>

\* mutant: the entry is replaced by one that holds the depth only
SetDepth_FreshEntry(t) ==
    /\ pc[t] = "setDepthCS"
    /\ writer = t
    /\ writer' = 0
    /\ registry' = MapSet(registry, path[t],
                          [explicitLayer |-> Nil, explicitDepth |-> <<arg[t].depth>>])
    /\ layerCache' = MapDelete(layerCache, path[t])
    /\ ret' = [ret EXCEPT ![t] = OK]
    /\ pc' = [pc EXCEPT ![t] = "done"]
    /\ RegistryWritten(t)
    /\ UNCHANGED <<aux, config, readers, op, path, arg, val, depthValue, via, calls>>

\* mutant: the cache entry of the package is kept
SetDepth_NoInvalidate(t) ==
    /\ pc[t] = "setDepthCS"
    /\ writer = t
    /\ writer' = 0
    /\ registry' = MapSet(registry, path[t],
                          [EntryOf(registry, path[t]) EXCEPT !.explicitDepth = <<arg[t].depth>>])
    /\ layerCache' = layerCache
    /\ ret' = [ret EXCEPT ![t] = OK]
    /\ pc' = [pc EXCEPT ![t] = "done"]
    /\ RegistryWritten(t)
    /\ UNCHANGED <<aux, config, readers, op, path, arg, val, depthValue, via, calls>>

\* mutant: the deferred Unlock is missing
SetDepth_NoUnlock(t) ==
    /\ pc[t] = "setDepthCS"
    /\ writer = t
    /\ writer' = writer
    /\ registry' = MapSet(registry, path[t],
                          [EntryOf(registry, path[t]) EXCEPT !.explicitDepth = <<arg[t].depth>>])
    /\ layerCache' = MapDelete(layerCache, path[t])
    /\ ret' = [ret EXCEPT ![t] = OK]
    /\ pc' = [pc EXCEPT ![t] = "done"]
    /\ RegistryWritten(t)
    /\ UNCHANGED <<aux, config, readers, op, path, arg, val, depthValue, via, calls>>

\* SetDepth lines 175-187, under the lock
SetDepth(t) ==
    /\ pc[t] = "setDepthCS"
    /\ writer = t
    /\ writer' = 0
    /\ registry' = MapSet(registry, path[t],
                          [EntryOf(registry, path[t]) EXCEPT !.explicitDepth = <<arg[t].depth>>])
    /\ layerCache' = MapDelete(layerCache, path[t])
    /\ ret' = [ret EXCEPT ![t] = OK]
    /\ pc' = [pc EXCEPT ![t] = "done"]
    /\ RegistryWritten(t)
    /\ UNCHANGED <<aux, config, readers, op, path, arg, val, depthValue, via, calls>>

\* ----------------------------------------------------------- specification
Next ==
    \E t \in Threads :
        \/ \E p \in Paths : CallResolve(t, p)
        \/ \E p \in Paths, layer \in LayerNames : CallSetLayerForPackage(t, p, layer)
        \/ \E p \in Paths, depth \in DepthArgs : CallSetDepth(t, p, depth)
        \/ Lock(t)
        \/ RLock(t)
        \/ getCachedLayer(t)
        \/ FindInherited(t)
        \/ ReadDepth(t)
        \/ Extract(t)
        \/ setCachedLayer(t)
        \/ SetLayerForPackage(t)
        \/ SetDepth(t)

Spec == Init /\ [][Next]_vars

\* ------------------------------------------------- reference definitions
\* q is p or an ancestor package of p: a prefix of p that ends where a "/"
\* of p follows
IsAncestorOrSelf(q, p) ==
    \/ q = p
    \/ /\ Len(q) >= 1
       /\ Len(q) < Len(p)
       /\ SubSeq(p, 1, Len(q)) = q
       /\ p[Len(q) + 1] = "/"

IsStrictAncestor(q, p) == q # p /\ IsAncestorOrSelf(q, p)

HasLayer(reg, q) == q \in DOMAIN reg /\ reg[q].explicitLayer # Nil

HasDepth(reg, q) == q \in DOMAIN reg /\ reg[q].explicitDepth # Nil

LayeredAncestors(reg, p) == {q \in DOMAIN reg : HasLayer(reg, q) /\ IsAncestorOrSelf(q, p)}

\* the explicit layer of the longest layered prefix of p, Nil when there is none
NearestLayer(reg, p) ==
    LET S == LayeredAncestors(reg, p)
    IN IF S = {} THEN Nil
       ELSE reg[CHOOSE q \in S : \A r \in S : Len(r) <= Len(q)].explicitLayer

\* the label a resolveLayer that misses the cache computes from reg and cfg
\* (resolveLayer lines 560-575 run against one registry value)
resolveUncached(reg, cfg, packagePath) ==
    LET inheritadLayer == findInheritedLayer(reg, packagePath)
    IN IF inheritadLayer # Nil
       THEN inheritadLayer[1]
       ELSE extractFromDepth(packagePath, depthValueOf(reg, cfg, packagePath), cfg.SkipSegments)

Returned(t) == pc[t] = "done" /\ op[t] = "resolve"

\* t's resolveLayer returned, it had missed the cache, and the registry has not
\* been written since the call started
ReturnedUncached(t) == Returned(t) /\ via[t] # "cache" /\ undisturbed[t]

P_a == <<"a">>
P_a_bc == <<"a", "/", "b", "c">>
P_abx == <<"a", "/", "b", "/", "x">>

\* the paths findInheritedLayer is asked about: the callers' packages, a parent
\* that is never configured, a sibling, and a path of which a/b is a prefix as
\* a string but not as a path
QueryPaths == Paths \cup {P_a, P_a_bc, P_abx}

\* ------------------------------------------------------------------ claims

\* C1: every cache entry of a path none of whose ancestors has been written
\* to the registry equals the label resolveLayer would compute for that path
\* from the current registry and config.
C1_CacheConsistent ==
    \A p \in DOMAIN layerCache :
        (\A q \in DOMAIN registry : ~IsStrictAncestor(q, p))
            => layerCache[p] = resolveUncached(registry, config, p)

\* C2: the first resolveLayer(p) that starts after a completed write to p, and
\* during which the registry is not written again, returns the label computed
\* from the registry as that write left it.
C2_FreshAfterWrite ==
    \A t \in Threads :
        (Returned(t) /\ marked[t] /\ undisturbed[t])
            => ret[t] = resolveUncached(registry, config, path[t])

\* C3: when a has an explicit layer and no longer prefix of q has one, a
\* resolveLayer(q) that missed the cache returns a's layer, for q = a and for
\* every descendant q of a.
C3_LayerInheritance ==
    \A t \in Threads : \A a \in DOMAIN registry :
        (/\ ReturnedUncached(t)
         /\ HasLayer(registry, a)
         /\ IsAncestorOrSelf(a, path[t])
         /\ \A c \in DOMAIN registry :
                (HasLayer(registry, c) /\ IsAncestorOrSelf(c, path[t])) => Len(c) <= Len(a))
            => ret[t] = registry[a].explicitLayer[1]

\* C3 witness: a/b/c/d resolved to the layer set on a/b only
C3_Witness ==
    \E t \in Threads :
        /\ ReturnedUncached(t)
        /\ path[t] = P_abcd
        /\ HasLayer(registry, P_ab)
        /\ ~HasLayer(registry, P_abc)
        /\ ~HasLayer(registry, P_abcd)
        /\ ret[t] = registry[P_ab].explicitLayer[1]

\* C4: findInheritedLayer(p) is the explicit layer of the longest "/"-prefix
\* of p that has one, and nil exactly when no prefix has one; entries with an
\* explicit depth only are skipped.
C4_NearestAncestorWins ==
    \A p \in QueryPaths :
        LET found == findInheritedLayer(registry, p)
            S == LayeredAncestors(registry, p)
        IN /\ (found = Nil) <=> (S = {})
           /\ S # {} => \E q \in S : /\ \A r \in S : Len(r) <= Len(q)
                                      /\ found = registry[q].explicitLayer

\* C4 witness: a/b and a/b/c carry different layers, a/b/c/d carries a depth
\* only, and the walk from a/b/c/d stops at a/b/c
C4_Witness ==
    /\ HasLayer(registry, P_ab)
    /\ HasLayer(registry, P_abc)
    /\ registry[P_ab].explicitLayer # registry[P_abc].explicitLayer
    /\ HasDepth(registry, P_abcd)
    /\ ~HasLayer(registry, P_abcd)
    /\ findInheritedLayer(registry, P_abcd) = registry[P_abc].explicitLayer

\* C5: with no explicit layer anywhere, a resolveLayer(q) that missed the cache
\* extracts with q's own explicit depth when q has one and with
\* config.DefaultDepth otherwise, whatever depth the ancestors of q carry.
C5_DepthNotInherited ==
    \A t \in Threads :
        (ReturnedUncached(t) /\ \A q \in DOMAIN registry : ~HasLayer(registry, q))
            => ret[t] = extractFromDepth(
                            path[t],
                            IF HasDepth(registry, path[t])
                            THEN registry[path[t]].explicitDepth[1]
                            ELSE config.DefaultDepth,
                            config.SkipSegments)

\* C5 witness: a/b carries a depth, its descendant carries none and resolved
\* to a label that a/b's depth would not have given
C5_Witness ==
    \E t \in Threads :
        /\ ReturnedUncached(t)
        /\ \A q \in DOMAIN registry : ~HasLayer(registry, q)
        /\ HasDepth(registry, P_ab)
        /\ IsStrictAncestor(P_ab, path[t])
        /\ ~HasDepth(registry, path[t])
        /\ ret[t] # extractFromDepth(path[t], registry[P_ab].explicitDepth[1], config.SkipSegments)

\* C6: when the path or an ancestor has an explicit layer, a resolveLayer that
\* missed the cache returns that layer whatever explicit depth and default
\* depth there are; the depth lookup and the extractor run only when
\* findInheritedLayer found nothing.
C6_LayerBeatsDepth ==
    \A t \in Threads :
        /\ ReturnedUncached(t) =>
              /\ (LayeredAncestors(registry, path[t]) # {}) =>
                    /\ via[t] = "inherited"
                    /\ ret[t] = NearestLayer(registry, path[t])[1]
              /\ (via[t] = "extracted") => (LayeredAncestors(registry, path[t]) = {})
        /\ (InResolve(t) /\ undisturbed[t] /\ pc[t] \in {"readDepth", "readDepthCS", "extract"})
              => (LayeredAncestors(registry, path[t]) = {})

\* C6 witness: the path has an explicit depth and inherits a layer, and the
\* call returned the layer, not the label its depth would give
C6_Witness ==
    \E t \in Threads :
        /\ ReturnedUncached(t)
        /\ HasDepth(registry, path[t])
        /\ LayeredAncestors(registry, path[t]) # {}
        /\ ret[t] = NearestLayer(registry, path[t])[1]
        /\ ret[t] # extractFromDepth(path[t], registry[path[t]].explicitDepth[1], config.SkipSegments)

\* C7: SetDepth with a negative depth panics at once and leaves the registry
\* and the cache as they were, so no registry entry ever carries a negative
\* depth; SetDepth with a depth >= 0 returns normally.
C7_NegativeDepthRejected ==
    /\ [](\A t \in Threads :
            op[t] = "SetDepth" =>
                IF arg[t].depth < 0
                THEN pc[t] = "done" /\ ret[t] = PANIC
                ELSE pc[t] = "done" => ret[t] = OK)
    /\ [](\A p \in DOMAIN registry :
            HasDepth(registry, p) => registry[p].explicitDepth[1] >= 0)
    /\ [][\A t \in Threads :
            (/\ calls' = calls + 1
             /\ op'[t] = "SetDepth"
             /\ arg'[t].depth < 0
             /\ \A u \in Threads \ {t} : pc'[u] = pc[u] /\ op'[u] = op[u] /\ arg'[u] = arg[u])
                => (registry' = registry /\ layerCache' = layerCache)]_vars

\* C7 witness: SetDepth(-1) has panicked while the registry and the cache
\* hold entries
C7_Witness ==
    \E t \in Threads :
        /\ op[t] = "SetDepth"
        /\ arg[t].depth < 0
        /\ ret[t] = PANIC
        /\ DOMAIN registry # {}
        /\ DOMAIN layerCache # {}

\* C8: once resolveLayer(p) has returned a string, the cache holds that string
\* for p, and a second resolveLayer(p) by the same caller, with nothing having
\* touched p's cache entry or the registry in between, goes from the cache
\* lookup straight to its return, with the same string, and changes nothing.
C8_MemoizedIdempotence ==
    /\ [](\A t \in Threads :
            (op[t] = "resolve" /\ quiet[t]) =>
                /\ pc[t] \in {"done", "getCached", "getCachedCS"}
                /\ path[t] \in DOMAIN layerCache
                /\ layerCache[path[t]] = ret[t])
    /\ [][\A t \in Threads :
            (quiet[t] /\ pc[t] = "getCachedCS" /\ pc'[t] # "getCachedCS")
                => /\ pc'[t] = "done"
                   /\ via'[t] = "cache"
                   /\ ret'[t] = ret[t]
                   /\ registry' = registry
                   /\ layerCache' = layerCache]_vars

\* C8 witness: a second call in immediate succession has returned from the cache
C8_Witness ==
    \E t \in Threads :
        /\ Returned(t)
        /\ quiet[t]
        /\ via[t] = "cache"
        /\ calls >= 2
        /\ \A u \in Threads \ {t} : op[u] = "none"

\* C9: resolveLayer calls for one path that ran with no registry write
\* overlapping any resolveLayer of that path all return the same label, and
\* the cache holds exactly that label for the path.
C9_ConcurrentConvergence ==
    \A t1 \in Threads : \A t2 \in Threads :
        (/\ Returned(t1) /\ undisturbed[t1]
         /\ Returned(t2) /\ undisturbed[t2]
         /\ path[t1] = path[t2]
         /\ path[t1] \notin raced)
            => /\ ret[t1] = ret[t2]
               /\ path[t1] \in DOMAIN layerCache
               /\ layerCache[path[t1]] = ret[t1]

\* C9 witness: two goroutines both missed the cache for the same path, both
\* computed and wrote the label, and both returned
C9_Witness ==
    \E t1 \in Threads : \E t2 \in Threads \ {t1} :
        /\ ReturnedUncached(t1)
        /\ ReturnedUncached(t2)
        /\ path[t1] = path[t2]
        /\ path[t1] \notin raced
        /\ ret[t1] = ret[t2]

\* C10: the step in which SetLayerForPackage or SetDepth on p finishes leaves
\* the cache without an entry for p and with every other entry, those of p's
\* descendants included, as it was.
C10_InvalidationFrame ==
    [][\A t \in Threads :
        (pc[t] \in {"setLayerCS", "setDepthCS"} /\ pc'[t] = "done")
            => /\ path[t] \notin DOMAIN layerCache'
               /\ DOMAIN layerCache' = DOMAIN layerCache \ {path[t]}
               /\ \A q \in DOMAIN layerCache' : layerCache'[q] = layerCache[q]]_vars

\* C10 witness: a goroutine resolved and cached p, then another wrote p: p has
\* no entry any more while a descendant of p still has its entry
C10_Witness ==
    \E t1 \in Threads : \E t2 \in Threads \ {t1} :
        /\ Returned(t1) /\ via[t1] # "cache"
        /\ pc[t2] = "done" /\ op[t2] \in {"SetLayerForPackage", "SetDepth"} /\ ret[t2] = OK
        /\ path[t2] = path[t1]
        /\ path[t1] \notin DOMAIN layerCache
        /\ \E q \in DOMAIN layerCache : IsStrictAncestor(path[t1], q)


\* the critical sections of registryMu: the pcs entered through Lock() and
\* those entered through RLock()
ExclusiveCS == {"getCachedCS", "setCachedCS", "setLayerCS", "setDepthCS"}
SharedCS == {"findInheritedCS", "readDepthCS"}

\* C11: every read and every write of the registry and of the cache by a
\* goroutine running resolveLayer, SetLayerForPackage or SetDepth happens while
\* that goroutine holds registryMu, every write while it holds it exclusively,
\* and a writer is never inside the lock together with another reader or
\* writer.
C11_RegistryMuDiscipline ==
    /\ [](/\ writer # 0 => readers = {}
          /\ \A t \in Threads :
                /\ pc[t] \in ExclusiveCS <=> writer = t
                /\ pc[t] \in SharedCS <=> t \in readers)
    /\ [][(registry' # registry \/ layerCache' # layerCache)
            => /\ writer # 0
               /\ readers = {}
               /\ pc[writer] \in {"setCachedCS", "setLayerCS", "setDepthCS"}
               /\ pc'[writer] = "done"
               /\ writer' = 0]_vars

\* one goroutine writes the registry inside the lock while the other one has
\* reached a lock acquisition of resolveLayer and has to wait
C11_Witness ==
    \E t, u \in Threads :
        /\ writer = t
        /\ pc[t] \in {"setLayerCS", "setDepthCS"}
        /\ pc[u] \in {"getCached", "findInherited", "readDepth", "setCached"}


\* C12: the cache lookup of resolveLayer and findInheritedLayer hold registryMu
\* in shared (read) mode, so that cache-hit resolves may overlap inside their
\* critical sections; SetLayerForPackage, SetDepth and the cache store hold it
\* in exclusive mode.
C12_LockModes ==
    \A t \in Threads :
        /\ pc[t] \in {"getCachedCS", "findInheritedCS"}
              => (t \in readers /\ writer = 0)
        /\ pc[t] \in {"setLayerCS", "setDepthCS", "setCachedCS"}
              => (writer = t /\ readers = {})


\* ------------------------------------------ the pure functions on their own
\* bound of the depths drawn for extractFromDepth
MaxDepth == 5

P_empty == <<>>
P_unknown == <<"u","n","k","n","o","w","n">>
P_internal_pkg == <<"i","n","t","e","r","n","a","l","/","p","k","g">>
P_a_pkg_b == <<"a","/","p","k","g","/","b">>
P_ab_slash == <<"a","/","b","/">>
P_a__b == <<"a","/","/","b">>
\* "myapp/internal/api/handlers", the path of the Config.DefaultDepth comment
P_handlers ==
    <<"m","y","a","p","p","/","i","n","t","e","r","n","a","l","/","a","p","i","/","h","a","n","d","l","e","r","s">>

\* package paths given to extractFromDepth: the paths of the logger, the
\* "unknown" of getCurrentPackage, and paths with skipped or empty segments
\* "myapp/pkg/adapters/http" and the skip list of
\* TestEndToEndSkipSegmentsFiltering
P_adapters_http ==
    <<"m","y","a","p","p","/","p","k","g","/","a","d","a","p","t","e","r","s","/","h","t","t","p">>
SkipAdapters ==
    << <<"i","n","t","e","r","n","a","l">>, <<"p","k","g">>,
       <<"a","d","a","p","t","e","r","s">> >>

ExtractPaths ==
    Paths \cup {P_empty, P_a, P_unknown, P_internal_pkg, P_a_pkg_b,
                P_ab_slash, P_a__b, P_handlers, P_adapters_http}

ExtractDepths == -2..MaxDepth

SkipLists ==
    {<<>>, DefaultConfig.SkipSegments, SkipAdapters, << <<"b">> >>, << <<"a">>, <<"b">> >>}

InitExtract ==
    /\ Fresh
    /\ input \in [packagePath : ExtractPaths, depth : ExtractDepths,
                  skipSegments : SkipLists]
    /\ output = <<>>

\* extractFromDepth(packagePath, depth, skipSegments)
ApplyExtract ==
    /\ "extract" \notin DOMAIN output
    /\ output' = MapSet(output, "extract",
                        extractFromDepth(input.packagePath, input.depth,
                                         input.skipSegments))
    /\ UNCHANGED <<core, front, input>>

\* resolveLayer(packagePath) on the logger as Init leaves it: nothing cached,
\* nothing registered
ApplyResolve ==
    /\ "resolve" \notin DOMAIN output
    /\ output' = MapSet(output, "resolve",
                        resolveUncached(registry, config, input.packagePath))
    /\ UNCHANGED <<core, front, input>>

\* parentPath(packagePath)
ApplyParentPath ==
    /\ "parent" \notin DOMAIN output
    /\ output' = MapSet(output, "parent", parentPath(input.packagePath))
    /\ UNCHANGED <<core, front, input>>

\* the number of times the loop of findInheritedLayer runs its body on a
\* registry without layers, counted up to fuel
RECURSIVE WalkSteps(_, _)
WalkSteps(current, fuel) ==
    IF current = <<>> \/ fuel = 0 THEN 0
    ELSE 1 + WalkSteps(parentPath(current), fuel - 1)

\* the walk of findInheritedLayer from packagePath, given one step more than
\* the path has characters
ApplyWalk ==
    /\ "walk" \notin DOMAIN output
    /\ output' = MapSet(output, "walk",
                        <<WalkSteps(input.packagePath, Len(input.packagePath) + 1)>>)
    /\ UNCHANGED <<core, front, input>>

NextExtract == ApplyExtract \/ ApplyResolve \/ ApplyParentPath \/ ApplyWalk

SpecExtract == InitExtract /\ [][NextExtract]_vars


\* the segments of segs that are not in skipSet, in their order
RECURSIVE DropMembers(_, _)
DropMembers(segs, skipSet) ==
    IF Len(segs) = 0 THEN <<>>
    ELSE (IF Head(segs) \in skipSet THEN <<>> ELSE <<Head(segs)>>)
            \o DropMembers(Tail(segs), skipSet)

\* the label of a path by definition: the last min(max(depth, 0), n) of its n
\* segments, without the members of skip, joined and upper-cased
ExtractReference(packagePath, depth, skip) ==
    LET segs == Split(packagePath)
        n == Len(segs)
        d == IF depth > 0 THEN depth ELSE 0
        k == IF d < n THEN d ELSE n
        kept == [i \in 1..k |-> segs[n - k + i]]
        rest == DropMembers(kept, {skip[i] : i \in 1..Len(skip)})
    IN IF Len(rest) = 0 THEN UNKNOWN ELSE ToUpper(Join(rest))

\* C13: for every path, every integer depth and every skip list,
\* extractFromDepth returns what the reference gives: the last
\* min(max(depth, 0), number of segments) segments of the path split on "/",
\* without the segments that are members of the skip list, joined with "/"
\* and upper-cased in their original order, or "UNKNOWN" if none remains.
C13_ExtractorReference ==
    "extract" \in DOMAIN output
        => output["extract"] = ExtractReference(input.packagePath, input.depth,
                                                input.skipSegments)

\* of a/pkg/b at depth 2 the last two segments are kept, pkg is skipped and b
\* is upper-cased
C13_Witness ==
    /\ "extract" \in DOMAIN output
    /\ input.packagePath = P_a_pkg_b
    /\ input.depth = 2
    /\ input.skipSegments = DefaultConfig.SkipSegments
    /\ output["extract"] = <<"B">>

\* C14: extractFromDepth fails for no path ("unknown" included) and no
\* integer depth; a depth above the number of segments gives the result of a
\* depth equal to it, a depth of 0 or less gives "UNKNOWN"; and resolveLayer
\* treats "unknown" as any other path and returns a label for it.
C14_ExtractorTotal ==
    /\ "extract" \in DOMAIN output
        => LET r == output["extract"]
               n == Len(Split(input.packagePath))
           IN /\ r # PANIC
              /\ input.depth <= 0 => r = UNKNOWN
              /\ input.depth > n
                    => r = extractFromDepth(input.packagePath, n,
                                            input.skipSegments)
    /\ "resolve" \in DOMAIN output
        => /\ output["resolve"] # PANIC
           /\ output["resolve"]
                = extractFromDepth(input.packagePath, config.DefaultDepth,
                                   config.SkipSegments)

\* "unknown" went through both functions, the extractor with a negative depth
C14_Witness ==
    /\ DOMAIN output = {"extract", "resolve"}
    /\ input.packagePath = P_unknown
    /\ input.depth < 0
    /\ output["extract"] = UNKNOWN
    /\ output["resolve"] = ToUpper(P_unknown)


\* ------------------------------------------------------- Config.Validate
LayerHTTP == <<"H","T","T","P">>
LayerDB == <<"D","B">>
LayerCORE == <<"C","O","R","E">>

\* the Config values given to Validate
ValidateConfigs ==
    [DefaultDepth : -2..MaxDepth,
     SkipSegments : {<<>>, DefaultConfig.SkipSegments},
     StrictMode : BOOLEAN,
     AllowedLayers : {<<>>, <<LayerHTTP>>, <<LayerHTTP, LayerDB, LayerCORE>>}]

\* the layers IsLayerAllowed is asked about
QueryLayers == {LayerHTTP, LayerDB, <<"C","U","S","T","O","M">>}

\* mutant: the allowed layers are consulted without strict mode too
IsLayerAllowed_AlwaysStrict(c, layer) == Contains(c.AllowedLayers, layer)

\* Config.IsLayerAllowed
IsLayerAllowed(c, layer) ==
    IF ~c.StrictMode
    THEN TRUE
    ELSE Contains(c.AllowedLayers, layer)

InitValidate ==
    /\ Fresh
    /\ input \in [c : ValidateConfigs, layer : QueryLayers]
    /\ output = <<>>

\* c.Validate(): reads the receiver's fields, assigns none
ApplyValidate ==
    /\ "validate" \notin DOMAIN output
    /\ output' = MapSet(output, "validate", Validate(input.c))
    /\ UNCHANGED <<core, front, input>>

\* DefaultConfig()
ApplyDefaultConfig ==
    /\ "DefaultConfig" \notin DOMAIN output
    /\ output' = MapSet(output, "DefaultConfig", DefaultConfig)
    /\ UNCHANGED <<core, front, input>>

\* c.IsLayerAllowed(layer): reads the receiver's fields, assigns none
ApplyIsLayerAllowed ==
    /\ "allowed" \notin DOMAIN output
    /\ output' = MapSet(output, "allowed", IsLayerAllowed(input.c, input.layer))
    /\ UNCHANGED <<core, front, input>>

NextValidate == ApplyValidate \/ ApplyDefaultConfig \/ ApplyIsLayerAllowed

SpecValidate == InitValidate /\ [][NextValidate]_vars

\* C15: Config.Validate returns an error exactly when DefaultDepth < 0 or
\* StrictMode is set with no allowed layer (so strict mode with an allowed
\* layer and a depth of 0 or more is accepted), and it leaves the Config as it
\* was.
C15_ValidateIff ==
    /\ []("validate" \in DOMAIN output
            => (output["validate"] = FALSE
                  <=> \/ input.c.DefaultDepth < 0
                      \/ input.c.StrictMode /\ input.c.AllowedLayers = <<>>))
    /\ [][input' = input]_vars

\* strict mode with one allowed layer and depth 0 was validated and accepted
C15_Witness ==
    /\ "validate" \in DOMAIN output
    /\ input.c.StrictMode
    /\ input.c.AllowedLayers = <<LayerHTTP>>
    /\ input.c.DefaultDepth = 0
    /\ output["validate"] = TRUE


\* ------------------------------------- the singleton and the front end
\* Each call of the front end is one step here, but for once.Do, which a
\* goroutine reaches after InitWithConfig has validated; the steps inside
\* resolveLayer, SetLayerForPackage and SetDepth are the subject of Spec.
Formatters == {"PlainText", "JSON"}

\* the Config of the README's strict mode example
StrictConfig ==
    [DefaultDepth |-> 2,
     SkipSegments |-> <<>>,
     StrictMode |-> TRUE,
     AllowedLayers |-> <<LayerHTTP, LayerDB, LayerCORE>>]

NegativeDepthConfig == [DefaultConfig EXCEPT !.DefaultDepth = -1]

StrictEmptyConfig == [DefaultConfig EXCEPT !.StrictMode = TRUE]

\* the configs passed to InitWithConfig, two of which Validate rejects
ConfigArgs == {DefaultConfig, StrictConfig, NegativeDepthConfig, StrictEmptyConfig}

\* the allowedLayers passed to Init: nil or map[Layer]int{LayerHTTP: 0}
AllowedArgs == {<<>>, [l \in {LayerHTTP} |-> 0]}

\* the minimum levels the logger is initialised with
InitLevels == {LevelInfo, LevelError}

\* the zero value of Config
ZeroConfig ==
    [DefaultDepth |-> 0, SkipSegments |-> <<>>, StrictMode |-> FALSE,
     AllowedLayers |-> <<>>]

\* the process before any Init: defaultLogger is nil and once has not run; the
\* variables of the Logger's fields hold zero values until one is allocated
InitLogger ==
    /\ once = FALSE
    /\ defaultLogger = 0
    /\ formatter = "nil"
    /\ level = 0
    /\ allowedLayers = <<>>
    /\ defaultLayer = <<>>
    /\ stdout = <<>>
    /\ caller = 0
    /\ mu = 0
    /\ config = ZeroConfig
    /\ registry = <<>>
    /\ layerCache = <<>>
    /\ writer = 0
    /\ readers = {}
    /\ pc = [t \in Threads |-> "idle"]
    /\ op = [t \in Threads |-> "none"]
    /\ path = [t \in Threads |-> Nil]
    /\ arg = [t \in Threads |-> Nil]
    /\ val = [t \in Threads |-> Nil]
    /\ depthValue = [t \in Threads |-> Nil]
    /\ ret = [t \in Threads |-> Nil]
    /\ via = [t \in Threads |-> "none"]
    /\ calls = 0
    /\ undisturbed = [t \in Threads |-> FALSE]
    /\ marked = [t \in Threads |-> FALSE]
    /\ quiet = [t \in Threads |-> FALSE]
    /\ lastWrite = Nil
    /\ raced = {}
    /\ input = Nil
    /\ output = <<>>

\* what no call of the front end touches
rest == <<writer, readers, val, depthValue, via, hist, input, output, mu>>

\* Init(formatter, level, allowedLayers) up to once.Do
CallInit(t, f, lvl, allowed) ==
    /\ CanCall(t)
    /\ calls' = calls + 1
    /\ caller' = t
    /\ op' = [op EXCEPT ![t] = "Init"]
    /\ arg' = [arg EXCEPT ![t] = <<[formatter |-> f, level |-> lvl,
                                   allowedLayers |-> allowed,
                                   config |-> DefaultConfig]>>]
    /\ path' = [path EXCEPT ![t] = Nil]
    /\ ret' = [ret EXCEPT ![t] = Nil]
    /\ pc' = [pc EXCEPT ![t] = "once"]
    /\ UNCHANGED <<rest, config, registry, layerCache, once, defaultLogger,
                   formatter, level, allowedLayers, defaultLayer, stdout>>

\* mutant: the config is not validated
CallInitWithConfig_NoValidate(t, f, lvl, cfg) ==
    /\ CanCall(t)
    /\ calls' = calls + 1
    /\ caller' = t
    /\ op' = [op EXCEPT ![t] = "InitWithConfig"]
    /\ arg' = [arg EXCEPT ![t] = <<[formatter |-> f, level |-> lvl,
                                   allowedLayers |-> <<>>, config |-> cfg]>>]
    /\ path' = [path EXCEPT ![t] = Nil]
    /\ ret' = [ret EXCEPT ![t] = Nil]
    /\ pc' = [pc EXCEPT ![t] = "once"]
    /\ UNCHANGED <<rest, config, registry, layerCache, once, defaultLogger,
                   formatter, level, allowedLayers, defaultLayer, stdout>>

\* InitWithConfig(formatter, level, config) up to once.Do: the validation
CallInitWithConfig(t, f, lvl, cfg) ==
    /\ CanCall(t)
    /\ calls' = calls + 1
    /\ caller' = t
    /\ op' = [op EXCEPT ![t] = "InitWithConfig"]
    /\ arg' = [arg EXCEPT ![t] = <<[formatter |-> f, level |-> lvl,
                                   allowedLayers |-> <<>>, config |-> cfg]>>]
    /\ path' = [path EXCEPT ![t] = Nil]
    /\ IF ~Validate(cfg)
       THEN /\ ret' = [ret EXCEPT ![t] = PANIC]
            /\ pc' = [pc EXCEPT ![t] = "done"]
       ELSE /\ ret' = [ret EXCEPT ![t] = Nil]
            /\ pc' = [pc EXCEPT ![t] = "once"]
    /\ UNCHANGED <<rest, config, registry, layerCache, once, defaultLogger,
                   formatter, level, allowedLayers, defaultLayer, stdout>>


\* the pointer to the n-th Logger allocated
LoggerRef(n) == <<"logger", n>>

\* map[Layer]int with value 1 for each listed layer
AllowedMap(layers) == [l \in {layers[i] : i \in 1..Len(layers)} |-> 1]

\* mutant: the function runs on every call
OnceDo_EveryCall(t) ==
    /\ pc[t] = "once"
    /\ LET a == arg[t][1] IN
        /\ once' = TRUE
        /\ defaultLogger' = defaultLogger + 1
        /\ formatter' = a.formatter
        /\ level' = a.level
        /\ config' = a.config
        /\ registry' = <<>>
        /\ layerCache' = <<>>
        /\ defaultLayer' = <<>>
        /\ allowedLayers' = IF op[t] = "InitWithConfig" /\ a.config.StrictMode
                            THEN AllowedMap(a.config.AllowedLayers)
                            ELSE a.allowedLayers
    /\ ret' = [ret EXCEPT ![t] = LoggerRef(defaultLogger')]
    /\ arg' = [arg EXCEPT ![t] = Nil]
    /\ pc' = [pc EXCEPT ![t] = "done"]
    /\ UNCHANGED <<rest, op, path, calls, stdout, caller>>

\* once.Do(func() {...}) and return defaultLogger, of Init and InitWithConfig
OnceDo(t) ==
    /\ pc[t] = "once"
    /\ LET a == arg[t][1] IN
       IF ~once
       THEN /\ once' = TRUE
            /\ defaultLogger' = defaultLogger + 1
            /\ formatter' = a.formatter
            /\ level' = a.level
            /\ config' = a.config
            /\ registry' = <<>>
            /\ layerCache' = <<>>
            /\ defaultLayer' = <<>>
            /\ allowedLayers' = IF op[t] = "InitWithConfig" /\ a.config.StrictMode
                                THEN AllowedMap(a.config.AllowedLayers)
                                ELSE a.allowedLayers
       ELSE UNCHANGED <<once, defaultLogger, formatter, level, config, registry,
                        layerCache, defaultLayer, allowedLayers>>
    /\ ret' = [ret EXCEPT ![t] = LoggerRef(defaultLogger')]
    /\ arg' = [arg EXCEPT ![t] = Nil]
    /\ pc' = [pc EXCEPT ![t] = "done"]
    /\ UNCHANGED <<rest, op, path, calls, stdout, caller>>

\* Get()
Get(t) ==
    /\ CanCall(t)
    /\ calls' = calls + 1
    /\ caller' = t
    /\ op' = [op EXCEPT ![t] = "Get"]
    /\ arg' = [arg EXCEPT ![t] = Nil]
    /\ path' = [path EXCEPT ![t] = Nil]
    /\ ret' = [ret EXCEPT ![t] = IF defaultLogger = 0 THEN PANIC
                                 ELSE LoggerRef(defaultLogger)]
    /\ pc' = [pc EXCEPT ![t] = "done"]
    /\ UNCHANGED <<rest, config, registry, layerCache, once, defaultLogger,
                   formatter, level, allowedLayers, defaultLayer, stdout>>

\* mutant: every call is emitted
Logger_log_NoFilter(t, lvl, packagePath) ==
    /\ CanCall(t)
    /\ defaultLogger # 0
    /\ calls' = calls + 1
    /\ caller' = t
    /\ op' = [op EXCEPT ![t] = "log"]
    /\ arg' = [arg EXCEPT ![t] = <<lvl>>]
    /\ path' = [path EXCEPT ![t] = packagePath]
    /\ ret' = [ret EXCEPT ![t] = OK]
    /\ pc' = [pc EXCEPT ![t] = "done"]
    /\ LET layerStr == IF packagePath \in DOMAIN layerCache
                       THEN layerCache[packagePath]
                       ELSE resolveUncached(registry, config, packagePath)
       IN /\ layerCache' = MapSet(layerCache, packagePath, layerStr)
          /\ stdout' = Append(stdout, [formatter |-> formatter, level |-> lvl,
                                       layer |-> layerStr])
    /\ UNCHANGED <<rest, config, registry, once, defaultLogger, formatter, level,
                   allowedLayers, defaultLayer>>

\* mutant: the line carries defaultLayer once SetLayer has set one
Logger_log_DefaultLayer(t, lvl, packagePath) ==
    /\ CanCall(t)
    /\ defaultLogger # 0
    /\ calls' = calls + 1
    /\ caller' = t
    /\ op' = [op EXCEPT ![t] = "log"]
    /\ arg' = [arg EXCEPT ![t] = <<lvl>>]
    /\ path' = [path EXCEPT ![t] = packagePath]
    /\ ret' = [ret EXCEPT ![t] = OK]
    /\ pc' = [pc EXCEPT ![t] = "done"]
    /\ IF level <= lvl
       THEN LET layerStr == IF packagePath \in DOMAIN layerCache
                            THEN layerCache[packagePath]
                            ELSE resolveUncached(registry, config, packagePath)
            IN /\ layerCache' = MapSet(layerCache, packagePath, layerStr)
               /\ stdout' = Append(stdout, [formatter |-> formatter, level |-> lvl,
                                            layer |-> IF defaultLayer # <<>>
                                                      THEN defaultLayer
                                                      ELSE layerStr])
       ELSE UNCHANGED <<layerCache, stdout>>
    /\ UNCHANGED <<rest, config, registry, once, defaultLogger, formatter, level,
                   allowedLayers, defaultLayer>>

\* Logger.log(level, msg) called from package packagePath, on the logger that
\* Init returned: the filter, getOrResolveLayer, Format and Println
Logger_log(t, lvl, packagePath) ==
    /\ CanCall(t)
    /\ defaultLogger # 0
    /\ calls' = calls + 1
    /\ caller' = t
    /\ op' = [op EXCEPT ![t] = "log"]
    /\ arg' = [arg EXCEPT ![t] = <<lvl>>]
    /\ path' = [path EXCEPT ![t] = packagePath]
    /\ ret' = [ret EXCEPT ![t] = OK]
    /\ pc' = [pc EXCEPT ![t] = "done"]
    /\ IF level <= lvl
       THEN LET layerStr == IF packagePath \in DOMAIN layerCache
                            THEN layerCache[packagePath]
                            ELSE resolveUncached(registry, config, packagePath)
            IN /\ layerCache' = MapSet(layerCache, packagePath, layerStr)
               /\ stdout' = Append(stdout, [formatter |-> formatter, level |-> lvl,
                                            layer |-> layerStr])
       ELSE UNCHANGED <<layerCache, stdout>>
    /\ UNCHANGED <<rest, config, registry, once, defaultLogger, formatter, level,
                   allowedLayers, defaultLayer>>


\* mutant: the layer is set without the lookup in allowedLayers
Logger_SetLayer_NoCheck(t, layer) ==
    /\ CanCall(t)
    /\ defaultLogger # 0
    /\ calls' = calls + 1
    /\ caller' = t
    /\ op' = [op EXCEPT ![t] = "SetLayer"]
    /\ arg' = [arg EXCEPT ![t] = <<layer>>]
    /\ path' = [path EXCEPT ![t] = Nil]
    /\ pc' = [pc EXCEPT ![t] = "done"]
    /\ ret' = [ret EXCEPT ![t] = OK]
    /\ defaultLayer' = layer
    /\ UNCHANGED <<rest, config, registry, layerCache, once, defaultLogger,
                   formatter, level, allowedLayers, stdout>>

\* Logger.SetLayer(layer), with the mutex mu taken and released around it
Logger_SetLayer(t, layer) ==
    /\ CanCall(t)
    /\ defaultLogger # 0
    /\ calls' = calls + 1
    /\ caller' = t
    /\ op' = [op EXCEPT ![t] = "SetLayer"]
    /\ arg' = [arg EXCEPT ![t] = <<layer>>]
    /\ path' = [path EXCEPT ![t] = Nil]
    /\ pc' = [pc EXCEPT ![t] = "done"]
    /\ IF layer \notin DOMAIN allowedLayers
       THEN /\ ret' = [ret EXCEPT ![t] = PANIC]
            /\ UNCHANGED defaultLayer
       ELSE /\ ret' = [ret EXCEPT ![t] = OK]
            /\ defaultLayer' = layer
    /\ UNCHANGED <<rest, config, registry, layerCache, once, defaultLogger,
                   formatter, level, allowedLayers, stdout>>

\* Logger.SetLayerForPackage(layer) called from package packagePath
Logger_SetLayerForPackage(t, packagePath, layer) ==
    /\ CanCall(t)
    /\ defaultLogger # 0
    /\ calls' = calls + 1
    /\ caller' = t
    /\ op' = [op EXCEPT ![t] = "SetLayerForPackage"]
    /\ arg' = [arg EXCEPT ![t] = <<layer>>]
    /\ path' = [path EXCEPT ![t] = packagePath]
    /\ registry' = MapSet(registry, packagePath,
                          [EntryOf(registry, packagePath)
                              EXCEPT !.explicitLayer = <<layer>>])
    /\ layerCache' = MapDelete(layerCache, packagePath)
    /\ ret' = [ret EXCEPT ![t] = OK]
    /\ pc' = [pc EXCEPT ![t] = "done"]
    /\ UNCHANGED <<rest, config, once, defaultLogger, formatter, level,
                   allowedLayers, defaultLayer, stdout>>

\* Logger.SetDepth(depth) called from package packagePath
Logger_SetDepth(t, packagePath, depth) ==
    /\ CanCall(t)
    /\ defaultLogger # 0
    /\ calls' = calls + 1
    /\ caller' = t
    /\ op' = [op EXCEPT ![t] = "SetDepth"]
    /\ arg' = [arg EXCEPT ![t] = <<depth>>]
    /\ pc' = [pc EXCEPT ![t] = "done"]
    /\ IF depth < 0
       THEN /\ ret' = [ret EXCEPT ![t] = PANIC]
            /\ path' = [path EXCEPT ![t] = Nil]
            /\ UNCHANGED <<registry, layerCache>>
       ELSE /\ ret' = [ret EXCEPT ![t] = OK]
            /\ path' = [path EXCEPT ![t] = packagePath]
            /\ registry' = MapSet(registry, packagePath,
                                  [EntryOf(registry, packagePath)
                                      EXCEPT !.explicitDepth = <<depth>>])
            /\ layerCache' = MapDelete(layerCache, packagePath)
    /\ UNCHANGED <<rest, config, once, defaultLogger, formatter, level,
                   allowedLayers, defaultLayer, stdout>>

\* the package that calls the front end
FrontPaths == {P_ab}

\* layers passed to SetLayerForPackage and SetLayer: listed in StrictConfig or not
FrontLayers == {LayerHTTP, <<"D", "b">>}

NextLogger ==
    \E t \in Threads :
        \/ \E f \in Formatters, lvl \in InitLevels, allowed \in AllowedArgs :
              CallInit(t, f, lvl, allowed)
        \/ \E f \in Formatters, lvl \in InitLevels, cfg \in ConfigArgs :
              CallInitWithConfig(t, f, lvl, cfg)
        \/ OnceDo(t)
        \/ Get(t)
        \/ \E lvl \in Levels, p \in FrontPaths : Logger_log(t, lvl, p)
        \/ \E layer \in FrontLayers : Logger_SetLayer(t, layer)
        \/ \E p \in FrontPaths, layer \in FrontLayers :
              Logger_SetLayerForPackage(t, p, layer)
        \/ \E p \in FrontPaths, depth \in DepthArgs : Logger_SetDepth(t, p, depth)

SpecLogger == InitLogger /\ [][NextLogger]_vars


\* the fields of the singleton
singleton == <<once, defaultLogger, config, registry, layerCache, formatter,
               level, allowedLayers, defaultLayer>>

\* C16: InitWithConfig with a Config that Validate rejects panics; it creates
\* no logger and leaves an existing one (config, registry, cache, formatter,
\* level) as it was; no logger with an invalid config is ever reached.
C16_FailFastConstruction ==
    /\ [](\A t \in Threads :
            (op[t] = "InitWithConfig" /\ arg[t] # Nil /\ ~Validate(arg[t][1].config))
                => (pc[t] = "done" /\ ret[t] = PANIC))
    /\ [](defaultLogger # 0 => Validate(config))
    /\ [][(calls' = calls + 1 /\ op'[caller'] = "InitWithConfig"
              /\ ret'[caller'] = PANIC)
            => UNCHANGED singleton]_vars

\* the latest call is an InitWithConfig that panicked, made when the logger
\* existed and had a registry entry
C16_Witness ==
    \E t \in Threads :
        /\ caller = t
        /\ op[t] = "InitWithConfig"
        /\ ret[t] = PANIC
        /\ defaultLogger = 1
        /\ registry # <<>>

\* C17: once an Init or InitWithConfig has succeeded, every later or
\* concurrent Init / InitWithConfig with valid arguments returns that one
\* logger and its arguments are dropped: config, formatter, level, registry
\* and cache are neither replaced nor reset; and no log, SetLayerForPackage,
\* SetDepth or SetLayer call changes the config.
C17_SingletonImmutableConfig ==
    /\ [](\A t \in Threads :
            (op[t] \in {"Init", "InitWithConfig"} /\ pc[t] = "done" /\ ret[t] # PANIC)
                => (ret[t] = LoggerRef(1) /\ defaultLogger = 1))
    /\ [][defaultLogger # 0
            => /\ defaultLogger' = defaultLogger
               /\ once' = TRUE
               /\ config' = config
               /\ formatter' = formatter
               /\ level' = level
               /\ allowedLayers' = allowedLayers
               /\ (calls' = calls \/ op'[caller'] \in {"Init", "InitWithConfig", "Get"})
                     => UNCHANGED <<registry, layerCache, defaultLayer>>]_vars

\* both goroutines returned from an initialisation with the logger that Init
\* created (only Init gives allowed layers without strict mode), so the
\* arguments of the InitWithConfig were the ones dropped
C17_Witness ==
    \E t, u \in Threads :
        /\ op[t] = "Init" /\ pc[t] = "done" /\ ret[t] = LoggerRef(1)
        /\ op[u] = "InitWithConfig" /\ pc[u] = "done" /\ ret[u] = LoggerRef(1)
        /\ allowedLayers # <<>>
        /\ ~config.StrictMode


C19_StrictModeEnforced ==
    (defaultLogger # 0 /\ config.StrictMode)
        => /\ \A i \in 1..Len(stdout) :
                Contains(config.AllowedLayers, stdout[i].layer)
           /\ \A t \in Threads :
                (op[t] = "SetLayerForPackage" /\ pc[t] = "done"
                    /\ ~Contains(config.AllowedLayers, arg[t][1]))
                  => ret[t] = PANIC


\* C20: a resolveLayer answered by an explicit layer (of the path or of an
\* ancestor) returns exactly the string that was given to SetLayerForPackage,
\* in its own case, and writes that same string to the cache.
C20_ExplicitLayerVerbatim ==
    /\ [](\A t \in Threads :
            (op[t] = "resolve" /\ pc[t] = "done" /\ via[t] = "inherited")
                => ret[t] \in LayerNames)
    /\ [][\A t \in Threads :
            (pc[t] = "findInheritedCS" /\ pc'[t] = "setCached")
                => \E q \in DOMAIN registry :
                      /\ IsAncestorOrSelf(q, path[t])
                      /\ registry[q].explicitLayer = <<val'[t]>>]_vars
    /\ [][\A t \in Threads :
            (pc[t] = "setCachedCS" /\ pc'[t] = "done" /\ via[t] = "inherited")
                => /\ ret'[t] = val[t]
                   /\ layerCache'[path[t]] = val[t]]_vars

\* a/b/c was answered by the layer "Db" set on an ancestor: returned and
\* cached in mixed case
C20_Witness ==
    \E t \in Threads :
        /\ op[t] = "resolve" /\ pc[t] = "done" /\ via[t] = "inherited"
        /\ path[t] = P_abc
        /\ ~HasLayer(registry, P_abc)
        /\ ret[t] = <<"D", "b">>
        /\ ret[t] # ToUpper(ret[t])
        /\ P_abc \in DOMAIN layerCache
        /\ layerCache[P_abc] = <<"D", "b">>


\* C21: every label that resolveLayer returns equals its own upper-casing,
\* whether the extractor, the cache or an explicit layer gave it.
C21_NormalizedLabels ==
    \A t \in Threads : Returned(t) => ret[t] = ToUpper(ret[t])

\* C21, as the code has it: a label that the extractor gave is upper-cased;
\* every returned or cached label is upper-cased or is, letter for letter, a
\* string that was passed to SetLayerForPackage.
C21_UpperCasedOrVerbatim ==
    /\ \A t \in Threads :
          Returned(t)
            => /\ via[t] = "extracted" => ret[t] = ToUpper(ret[t])
               /\ via[t] = "inherited" => ret[t] \in LayerNames
               /\ ret[t] = ToUpper(ret[t]) \/ ret[t] \in LayerNames
    /\ \A p \in DOMAIN layerCache :
          layerCache[p] = ToUpper(layerCache[p]) \/ layerCache[p] \in LayerNames

\* one goroutine took the mixed-case layer "Db" from the registry and cached
\* it, the other was then answered from the cache with the same label
C21_Witness ==
    \E t, u \in Threads :
        /\ Returned(t) /\ via[t] = "cache"
        /\ ret[t] = <<"D", "b">>
        /\ ret[t] # ToUpper(ret[t])
        /\ Returned(u) /\ via[u] = "inherited"
        /\ ret[u] = ret[t]


\* C22: DefaultConfig returns a Config with DefaultDepth 3, StrictMode false
\* and a non-empty SkipSegments list, and Validate accepts it.
C22_DefaultConfig ==
    "DefaultConfig" \in DOMAIN output
        => LET c == output["DefaultConfig"]
           IN /\ c.DefaultDepth = 3
              /\ c.StrictMode = FALSE
              /\ Len(c.SkipSegments) > 0
              /\ Validate(c)


C25_IsLayerAllowed ==
    /\ []("allowed" \in DOMAIN output
            => (output["allowed"]
                  <=> \/ ~input.c.StrictMode
                      \/ \E i \in 1..Len(input.c.AllowedLayers) :
                            input.c.AllowedLayers[i] = input.layer))
    /\ [][("allowed" \in DOMAIN output' /\ "allowed" \notin DOMAIN output)
            => input' = input]_vars

\* without strict mode DB is allowed although only HTTP is listed
C25_Witness ==
    /\ "allowed" \in DOMAIN output
    /\ ~input.c.StrictMode
    /\ input.c.AllowedLayers = <<LayerHTTP>>
    /\ input.layer = LayerDB
    /\ output["allowed"] = TRUE


\* C26: whenever no writer holds the lock, every entry that
\* SetLayerForPackage or SetDepth stored in the registry has its explicit
\* layer set, its explicit depth set, or both.
C26_RegistryEntriesNonEmpty ==
    writer = 0
        => \A p \in DOMAIN registry : HasLayer(registry, p) \/ HasDepth(registry, p)

\* with the lock free, one entry holds a depth only and another a layer only
C26_Witness ==
    /\ writer = 0
    /\ \E p, q \in DOMAIN registry :
          /\ HasDepth(registry, p) /\ ~HasLayer(registry, p)
          /\ HasLayer(registry, q) /\ ~HasDepth(registry, q)

\* the goroutine, if any, that completes a registry write in this step
WriteStep(t, cs) == pc[t] = cs /\ pc'[t] = "done"

\* C27: no operation removes a registry key. SetLayerForPackage on p changes
\* p's explicit layer only: p's explicit depth and every other entry stay;
\* SetDepth on p changes p's explicit depth only; resolveLayer never changes
\* the registry.
C27_RegistryFrame ==
    [][/\ DOMAIN registry \subseteq DOMAIN registry'
       /\ \A t \in Threads :
            WriteStep(t, "setLayerCS")
              => /\ DOMAIN registry' = DOMAIN registry \cup {path[t]}
                 /\ \A q \in DOMAIN registry \ {path[t]} : registry'[q] = registry[q]
                 /\ registry'[path[t]].explicitLayer = <<arg[t].layer>>
                 /\ registry'[path[t]].explicitDepth
                       = EntryOf(registry, path[t]).explicitDepth
       /\ \A t \in Threads :
            WriteStep(t, "setDepthCS")
              => /\ DOMAIN registry' = DOMAIN registry \cup {path[t]}
                 /\ \A q \in DOMAIN registry \ {path[t]} : registry'[q] = registry[q]
                 /\ registry'[path[t]].explicitDepth = <<arg[t].depth>>
                 /\ registry'[path[t]].explicitLayer
                       = EntryOf(registry, path[t]).explicitLayer
       /\ (\A t \in Threads : ~WriteStep(t, "setLayerCS") /\ ~WriteStep(t, "setDepthCS"))
              => registry' = registry]_vars

\* SetDepth has just written a/b, which keeps the layer it had, next to an
\* entry of another package
C27_Witness ==
    \E t \in Threads :
        /\ op[t] = "SetDepth" /\ pc[t] = "done" /\ ret[t] = OK
        /\ path[t] = P_ab
        /\ lastWrite = <<P_ab>>
        /\ HasLayer(registry, P_ab)
        /\ registry[P_ab].explicitDepth = <<arg[t].depth>>
        /\ DOMAIN registry # {P_ab}


\* t holds registryMu, in either mode
Holds(t) == writer = t \/ t \in readers

\* C28: a resolveLayer that misses the cache takes the lock exactly twice:
\* once for its reads of the registry, so that the inherited-layer lookup and
\* the explicit-depth lookup see one registry state, and once for the write
\* of the cache entry; extractFromDepth runs with the lock not held. So from
\* its first acquisition on, the goroutine is without the lock only around
\* the extractor, before it takes the lock again for the cache write.
C28_TwoCriticalSections ==
    \A t \in Threads :
        InResolve(t)
          => /\ pc[t] \in {"extract", "setCached"} => ~Holds(t)
             /\ pc[t] \in {"findInherited", "readDepth"} => Holds(t)


\* C29: a label cached for a path stays in the cache, and so is what every
\* later resolveLayer of that path returns, whatever is written to the path's
\* ancestors, for as long as no override is written to the path itself: no
\* step removes or changes the cache entry of a path that has no registry
\* entry of its own.
C29_DescendantStaleness ==
    [][\A p \in DOMAIN layerCache :
           p \notin DOMAIN registry'
             => p \in DOMAIN layerCache' /\ layerCache'[p] = layerCache[p]]_vars


\* this step writes the registry entry of p
RegistryChangedAt(p) ==
    /\ p \in DOMAIN registry'
    /\ p \notin DOMAIN registry \/ registry'[p] # registry[p]

\* C30: the registry update for a path and the deletion of that path's cache
\* entry are one step of the goroutine that holds registryMu exclusively: a
\* step that writes the registry entry of p is taken inside SetLayerForPackage
\* or SetDepth for p, with no reader inside, and leaves the cache without an
\* entry for p, so no state has the new registry value next to the cache
\* entry from before the call.
C30_UpdateAndInvalidateAtomic ==
    [][\A p \in Paths :
           RegistryChangedAt(p)
             => /\ \E t \in Threads :
                       /\ writer = t
                       /\ readers = {}
                       /\ path[t] = p
                       /\ WriteStep(t, "setLayerCS") \/ WriteStep(t, "setDepthCS")
                /\ p \notin DOMAIN layerCache']_vars

\* C30 witness: a resolveLayer of p stored its label and returned, and a
\* SetDepth for p has completed since: the registry has the depth and the
\* cache no entry for p
C30_Witness ==
    \E t, u \in Threads :
        /\ t # u
        /\ op[t] = "SetDepth" /\ pc[t] = "done" /\ ret[t] = OK
        /\ Returned(u) /\ via[u] # "cache" /\ path[u] = path[t]
        /\ HasDepth(registry, path[t])
        /\ path[t] \notin DOMAIN layerCache


\* ------------------------------------------------------------- fair runs
\* the steps of goroutine t inside a call: the lock acquisitions and the
\* critical sections and computations that follow them
GoroutineStep(t) ==
    \/ Lock(t)
    \/ RLock(t)
    \/ getCachedLayer(t)
    \/ FindInherited(t)
    \/ ReadDepth(t)
    \/ Extract(t)
    \/ setCachedLayer(t)
    \/ SetLayerForPackage(t)
    \/ SetDepth(t)

\* the packages and the layer of the callers in the fair runs: a package and
\* its child, so that the goroutines meet on one path and on an ancestor
FairPaths == {P_ab, P_abc}
FairLayers == {<<"X">>}

NextFair ==
    \E t \in Threads :
        \/ \E p \in FairPaths : CallResolve(t, p)
        \/ \E p \in FairPaths, layer \in FairLayers : CallSetLayerForPackage(t, p, layer)
        \/ \E p \in FairPaths, depth \in DepthArgs : CallSetDepth(t, p, depth)
        \/ GoroutineStep(t)

\* the scheduler runs every goroutine that can run, and a lock that stays
\* free is granted to a goroutine waiting for it
SpecFair == Init /\ [][NextFair]_vars /\ \A t \in Threads : WF_pc(GoroutineStep(t))

\* t is about to call registryMu.Lock() or registryMu.RLock()
AtAcquire(t) ==
    pc[t] \in {"getCached", "findInherited", "readDepth", "setCached", "setLayer", "setDepth"}

\* C31: no goroutine acquires registryMu while it holds it, a goroutine that
\* is outside a call (a SetDepth that panicked on a negative depth included)
\* holds no lock, and under fair scheduling every call that has started
\* eventually returns.
C31_NoDeadlock ==
    /\ [](\A t \in Threads :
              /\ AtAcquire(t) => ~Holds(t)
              /\ pc[t] \in {"idle", "done"} => ~Holds(t))
    /\ \A t \in Threads : (pc[t] \notin {"idle", "done"}) ~> (pc[t] = "done")

\* C31 witness: a SetDepth that panicked on a negative depth has returned,
\* the other goroutine's resolveLayer ran through all four critical sections
\* and returned, and the lock is free
C31_Witness ==
    \E t, u \in Threads :
        /\ t # u
        /\ op[t] = "SetDepth" /\ pc[t] = "done" /\ ret[t] = PANIC
        /\ Returned(u) /\ via[u] = "extracted"
        /\ writer = 0 /\ readers = {}


\* the positions of the last min(max(depth, 0), n) of the n segments of
\* packagePath whose segment is not a member of skip
KeptInWindow(packagePath, depth, skip) ==
    LET segs == Split(packagePath)
        n == Len(segs)
        d == IF depth > 0 THEN depth ELSE 0
        k == IF d < n THEN d ELSE n
    IN {i \in (n - k + 1)..n : ~Contains(skip, segs[i])}

\* C32: extractFromDepth takes the last depth segments first and removes the
\* skipped ones from that window, and takes no earlier segment in their
\* place: the label has one segment for each segment of the window that is
\* not skipped, so at most depth segments, and it is "UNKNOWN" when every
\* segment of the window is skipped, whatever stands before the window.
C32_SkipAfterWindow ==
    "extract" \in DOMAIN output
        => LET kept == KeptInWindow(input.packagePath, input.depth, input.skipSegments)
               r == output["extract"]
           IN IF kept = {}
              THEN r = UNKNOWN
              ELSE /\ Len(Split(r)) = Cardinality(kept)
                   /\ Cardinality(kept) <= input.depth
                   /\ r = ToUpper(Join([j \in 1..Cardinality(kept) |->
                            Split(input.packagePath)[
                                CHOOSE i \in kept :
                                    Cardinality({h \in kept : h < i}) = j - 1]]))

\* C32 witness: depth 3 on "myapp/pkg/adapters/http" with internal, pkg and
\* adapters skipped gives "HTTP", not "MYAPP/HTTP"
C32_Witness ==
    /\ "extract" \in DOMAIN output
    /\ input.packagePath = P_adapters_http
    /\ input.depth = 3
    /\ input.skipSegments = SkipAdapters
    /\ output["extract"] = LayerHTTP


\* ------------------------------------------- two loggers, one call sequence
\* A logger as a value: the fields the resolver reads and writes, and what
\* its last call returned. The calls are applied one after another.
LoggerOf(cfg) == [config |-> cfg, registry |-> <<>>, layerCache |-> <<>>, ret |-> Nil]

\* resolveLayer(lg, packagePath)
ResolveOn(lg, packagePath) ==
    LET label == IF packagePath \in DOMAIN lg.layerCache
                 THEN lg.layerCache[packagePath]
                 ELSE resolveUncached(lg.registry, lg.config, packagePath)
    IN [lg EXCEPT !.layerCache = MapSet(lg.layerCache, packagePath, label),
                  !.ret = label]

\* mutant: in strict mode a layer that is not allowed is refused
SetLayerForPackageOn_Strict(lg, packagePath, layer) ==
    IF ~IsLayerAllowed(lg.config, layer)
    THEN [lg EXCEPT !.ret = PANIC]
    ELSE [lg EXCEPT !.registry = MapSet(lg.registry, packagePath,
                                        [EntryOf(lg.registry, packagePath)
                                            EXCEPT !.explicitLayer = <<layer>>]),
                    !.layerCache = MapDelete(lg.layerCache, packagePath),
                    !.ret = OK]

\* lg.SetLayerForPackage(layer) called from package packagePath
SetLayerForPackageOn(lg, packagePath, layer) ==
    [lg EXCEPT !.registry = MapSet(lg.registry, packagePath,
                                   [EntryOf(lg.registry, packagePath)
                                       EXCEPT !.explicitLayer = <<layer>>]),
               !.layerCache = MapDelete(lg.layerCache, packagePath),
               !.ret = OK]

\* lg.SetDepth(depth) called from package packagePath
SetDepthOn(lg, packagePath, depth) ==
    IF depth < 0
    THEN [lg EXCEPT !.ret = PANIC]
    ELSE [lg EXCEPT !.registry = MapSet(lg.registry, packagePath,
                                        [EntryOf(lg.registry, packagePath)
                                            EXCEPT !.explicitDepth = <<depth>>]),
                    !.layerCache = MapDelete(lg.layerCache, packagePath),
                    !.ret = OK]

\* the strict twins of a config: the same depth and skip list, strict mode on,
\* with the layers of the README's example or with one layer allowed
StrictTwins(cfg) ==
    {[cfg EXCEPT !.StrictMode = TRUE, !.AllowedLayers = allowed] :
        allowed \in {<<LayerHTTP>>, <<LayerHTTP, LayerDB, LayerCORE>>}}

PairPaths == {P_ab, P_abc}

\* the pair: input.a is not strict, input.b is a strict twin of it
InitPair ==
    /\ Fresh
    /\ \E cfg \in {DefaultConfig, [DefaultConfig EXCEPT !.DefaultDepth = 1]} :
         \E twin \in StrictTwins(cfg) :
            input = [a |-> LoggerOf(cfg), b |-> LoggerOf(twin)]
    /\ output = <<>>

\* what a call on the pair leaves alone
pairFrame == <<config, registry, layerCache, writer, readers, pc, op, path, arg,
               val, depthValue, ret, via, hist, front, output>>

PairResolve(packagePath) ==
    /\ calls < MaxCalls
    /\ calls' = calls + 1
    /\ input' = [a |-> ResolveOn(input.a, packagePath),
                 b |-> ResolveOn(input.b, packagePath)]
    /\ UNCHANGED pairFrame

PairSetLayerForPackage(packagePath, layer) ==
    /\ calls < MaxCalls
    /\ calls' = calls + 1
    /\ input' = [a |-> SetLayerForPackageOn(input.a, packagePath, layer),
                 b |-> SetLayerForPackageOn(input.b, packagePath, layer)]
    /\ UNCHANGED pairFrame

PairSetDepth(packagePath, depth) ==
    /\ calls < MaxCalls
    /\ calls' = calls + 1
    /\ input' = [a |-> SetDepthOn(input.a, packagePath, depth),
                 b |-> SetDepthOn(input.b, packagePath, depth)]
    /\ UNCHANGED pairFrame

NextPair ==
    \/ \E p \in PairPaths : PairResolve(p)
    \/ \E p \in PairPaths, layer \in FrontLayers : PairSetLayerForPackage(p, layer)
    \/ \E p \in PairPaths, depth \in DepthArgs : PairSetDepth(p, depth)

SpecPair == InitPair /\ [][NextPair]_vars

\* C33: two loggers whose configs differ in StrictMode and AllowedLayers
\* only, given the same calls of resolveLayer, SetLayerForPackage and
\* SetDepth, return the same value from every call and have equal registries
\* and caches: resolution does not depend on strict mode.
C33_StrictModeIndependent ==
    /\ [input.a.config EXCEPT !.StrictMode = TRUE, !.AllowedLayers = <<>>]
         = [input.b.config EXCEPT !.StrictMode = TRUE, !.AllowedLayers = <<>>]
    /\ input.a.ret = input.b.ret
    /\ input.a.registry = input.b.registry
    /\ input.a.layerCache = input.b.layerCache

\* C33 witness: the strict logger has resolved a/b/c to a layer that its
\* config does not allow, inherited from a/b, as the other logger has
C33_Witness ==
    /\ ~input.a.config.StrictMode
    /\ input.b.config.StrictMode
    /\ P_abc \in DOMAIN input.b.layerCache
    /\ HasLayer(input.b.registry, P_ab)
    /\ input.b.ret = <<"D", "b">>
    /\ ~IsLayerAllowed(input.b.config, input.b.ret)
    /\ input.a.ret = input.b.ret


\* label is not the empty string and none of its "/"-separated segments is
NonEmptyLabel(label) ==
    /\ label # <<>>
    /\ \A i \in 1..Len(Split(label)) : Split(label)[i] # <<>>

\* C34: for every path (the empty path and paths with a trailing or a doubled
\* "/" included), every depth and every skip list, the label extractFromDepth
\* returns, and the label resolveLayer returns when no layer is set, is not
\* the empty string and has no empty segment.
C34_NonEmptyLabels ==
    \A f \in DOMAIN output \cap {"extract", "resolve"} : NonEmptyLabel(output[f])


\* ------------------------------------------------- SetLayer and its mutex
\* the layers passed to SetLayer: two that are registered and the one of
\* TestLoggerSetLayer that is not
SetLayerArgs == {LayerHTTP, LayerDB, UNKNOWN}

\* Init(mock, LevelInfo, map[Layer]int{LayerHTTP: 0, LayerDB: 1}) has run
InitSetLayer ==
    /\ once = TRUE
    /\ defaultLogger = 1
    /\ formatter = "PlainText"
    /\ level = LevelInfo
    /\ allowedLayers = [l \in {LayerHTTP, LayerDB} |-> IF l = LayerHTTP THEN 0 ELSE 1]
    /\ defaultLayer = <<>>
    /\ stdout = <<>>
    /\ caller = 0
    /\ mu = 0
    /\ config = ZeroConfig
    /\ registry = <<>>
    /\ layerCache = <<>>
    /\ writer = 0
    /\ readers = {}
    /\ pc = [t \in Threads |-> "idle"]
    /\ op = [t \in Threads |-> "none"]
    /\ path = [t \in Threads |-> Nil]
    /\ arg = [t \in Threads |-> Nil]
    /\ val = [t \in Threads |-> Nil]
    /\ depthValue = [t \in Threads |-> Nil]
    /\ ret = [t \in Threads |-> Nil]
    /\ via = [t \in Threads |-> "none"]
    /\ calls = 0
    /\ undisturbed = [t \in Threads |-> FALSE]
    /\ marked = [t \in Threads |-> FALSE]
    /\ quiet = [t \in Threads |-> FALSE]
    /\ lastWrite = Nil
    /\ raced = {}
    /\ input = Nil
    /\ output = <<>>

\* what SetLayer leaves alone
setLayerFrame == <<config, registry, layerCache, writer, readers, path, val,
                   depthValue, via, hist, input, output, once, defaultLogger,
                   formatter, level, allowedLayers, stdout>>

\* goroutine t calls l.SetLayer(layer)
SetLayer_Call(t, layer) ==
    /\ CanCall(t)
    /\ calls' = calls + 1
    /\ caller' = t
    /\ op' = [op EXCEPT ![t] = "SetLayer"]
    /\ arg' = [arg EXCEPT ![t] = <<layer>>]
    /\ ret' = [ret EXCEPT ![t] = Nil]
    /\ pc' = [pc EXCEPT ![t] = "muLock"]
    /\ UNCHANGED <<setLayerFrame, defaultLayer, mu>>

\* l.mu.Lock()
SetLayer_Lock(t) ==
    /\ pc[t] = "muLock"
    /\ mu = 0
    /\ mu' = t
    /\ pc' = [pc EXCEPT ![t] = "setLayerCS"]
    /\ UNCHANGED <<setLayerFrame, defaultLayer, calls, caller, op, arg, ret>>

\* mutant: the Unlock is not deferred, it follows the assignment
SetLayer_Body_UnlockAtEnd(t) ==
    /\ pc[t] = "setLayerCS"
    /\ mu = t
    /\ IF arg[t][1] \notin DOMAIN allowedLayers
       THEN /\ ret' = [ret EXCEPT ![t] = PANIC]
            /\ UNCHANGED <<defaultLayer, mu>>
       ELSE /\ ret' = [ret EXCEPT ![t] = OK]
            /\ defaultLayer' = arg[t][1]
            /\ mu' = 0
    /\ pc' = [pc EXCEPT ![t] = "done"]
    /\ UNCHANGED <<setLayerFrame, calls, caller, op, arg>>

\* SetLayer lines 56-60, and the deferred l.mu.Unlock() that runs when the
\* function returns or panics
SetLayer_Body(t) ==
    /\ pc[t] = "setLayerCS"
    /\ mu = t
    /\ IF arg[t][1] \notin DOMAIN allowedLayers
       THEN /\ ret' = [ret EXCEPT ![t] = PANIC]
            /\ UNCHANGED defaultLayer
       ELSE /\ ret' = [ret EXCEPT ![t] = OK]
            /\ defaultLayer' = arg[t][1]
    /\ mu' = 0
    /\ pc' = [pc EXCEPT ![t] = "done"]
    /\ UNCHANGED <<setLayerFrame, calls, caller, op, arg>>

SetLayerStep(t) == SetLayer_Lock(t) \/ SetLayer_Body(t)

NextSetLayer ==
    \E t \in Threads :
        \/ \E layer \in SetLayerArgs : SetLayer_Call(t, layer)
        \/ SetLayerStep(t)

\* a goroutine that can run runs, and a mutex that stays free is granted
SpecSetLayer ==
    InitSetLayer /\ [][NextSetLayer]_vars /\ \A t \in Threads : WF_pc(SetLayerStep(t))

\* C35: SetLayer releases mu when it panics: a goroutine whose SetLayer has
\* returned or panicked does not hold mu, mu is held only by a goroutine
\* inside SetLayer's critical section, and every SetLayer that waits for mu,
\* after a panicked one too, acquires it and completes.
C35_MutexReleasedOnPanic ==
    /\ [](\A t \in Threads :
             /\ pc[t] \in {"idle", "done"} => mu # t
             /\ mu = t => pc[t] = "setLayerCS")
    /\ [](mu # 0 => mu \in Threads)
    /\ \A t \in Threads : (pc[t] = "muLock") ~> (pc[t] = "done")

\* C35 witness: SetLayer("UNKNOWN") has panicked on one goroutine, and the
\* other one's SetLayer, called after it, has taken mu and completed
C35_Witness ==
    \E t, u \in Threads :
        /\ t # u
        /\ op[t] = "SetLayer" /\ pc[t] = "done" /\ ret[t] = PANIC
        /\ caller = u
        /\ op[u] = "SetLayer" /\ pc[u] = "done" /\ ret[u] = OK
        /\ defaultLayer = arg[u][1]
        /\ mu = 0


C37_ParentPathWalk ==
    LET p == input.packagePath
        segs == Split(p)
        n == Len(segs)
    IN /\ "parent" \in DOMAIN output
            => LET r == output["parent"]
               IN /\ r = Join(SubSeq(segs, 1, n - 1))
                  /\ LastIndex(p) = -1 => r = <<>>
                  /\ p # <<>> => Len(r) < Len(p)
       /\ "walk" \in DOMAIN output
            => /\ output["walk"][1] <= n
               /\ p = <<>> => output["walk"][1] = 0

\* C37 witness: the parent of a/b/c/d is a/b/c, and the walk from a/b/c/d
\* took its four steps
C37_Witness ==
    /\ input.packagePath = P_abcd
    /\ "parent" \in DOMAIN output
    /\ output["parent"] = P_abc
    /\ "walk" \in DOMAIN output
    /\ output["walk"] = <<4>>

====
